---- MODULE Spec2Model ----
(***************************************************************************)
(* The scan / fix pipeline of apex: the Scan row's status lifecycle as     *)
(* runScan (lib/scanner.ts) and generateFixes / runFixWorker               *)
(* (lib/ai-fixer.ts) drive it, the Violation and Fix tables they write,    *)
(* the batch loop with its wall-clock budget and empty-batch breaker.      *)
(*                                                                         *)
(* One Scan row is modelled, next to one Violation row of another Scan     *)
(* that the agent may name by mistake.  External calls (git, docker, the   *)
(* agent) are nondeterministic in result and in duration.  Database calls  *)
(* are taken to succeed.  A sequence of awaited database writes that       *)
(* follows one external call with no read in between is one step.          *)
(*                                                                         *)
(* Three bounded environments are explored (Environments): a client whose  *)
(* fix requests overlap the scan and each other, an agent whose output     *)
(* names violations freely, and a clock that runs against the budget.      *)
(* Every run tracks the temp dirs and containers it makes.                 *)
(*                                                                         *)
(* Two library functions are followed on their own: one call of            *)
(* execInSandbox (lib/sandbox.ts) against a container that is free in what *)
(* it sends and when (SpecExec), and calculateAccessibilityScore           *)
(* (lib/github.ts) on every short list of impacts (SpecScore).             *)
(***************************************************************************)
EXTENDS Integers, Sequences, FiniteSets, TLC

\* ------------------------------------------------------------------ bounds
\* most Violation rows a scan yields when fix requests may overlap
RaceNodes == 1
\* most generateFixes runs when fix requests may overlap
RaceRuns == 2
\* most Violation rows a scan yields when the agent's output is unconstrained
AgentNodes == 2
\* most Violation rows a scan yields when the clock runs
ClockNodes == 4
\* largest OPENCODE_WORKERS value tried
MaxConfiguredWorkers == 2
\* the clock stops advancing after this many ticks
MaxTicks == 3
\* milliseconds in one tick of the clock
TickMs == 15000
\* execInSandbox: the bytes of the first chunk when a frame header is cut
HeaderCut == 5
\* execInSandbox: the timeout a caller passes, in ms
ShortTimeoutMs == 60000
\* execInSandbox: what one step of its clock adds, in ms, and how many steps
ExecTickMs == 60000
MaxExecTicks == 3
\* calculateAccessibilityScore: the longest list it is called on
MaxViolations == 4
\* refund-escrow: most requests, the ticks of one wait and the number of waits
RefundRequests == 2
\* partitionBatches: most batches, and the largest OPENCODE_WORKERS value
MaxBatches == 9
MaxWorkerSetting == 8
\* the plan of a run: most Violation rows
MaxPlanRows == 3
\* fixes read from one agent output, and files one agent run changes
MaxExtracted == 2
MaxDirtyFiles == 2
\* directories with a server script, and index.html candidates, of a repository
MaxDevDirs == 3
MaxStaticFiles == 2
\* workers of a run followed by their workspaces, and names for dirs and containers
MaxWorkspaceWorkers == 2
MaxTmpNames == 3
\* requests to the payment route that are followed
MaxPaymentRequests == 4
\* rule violations in a result of the rule engine, and nodes of one
MaxEngineRules == 2
MaxRuleNodes == 2
\* segments of a fix's filePath
MaxPathSegments == 4
\* users with a Scan each, and requests to the fix and PATCH routes
MaxUsers == 2
MaxFixRequests == 2
\* OPENCODE_TIMEOUT_SECONDS when it is set low
SmallTimeoutSeconds == 10
WaitTicks == 10
MaxWaits == 3

\* ------------------------------------------------------- program constants
MAX_OPENCODE_WORKERS == 6
MAX_CONSECUTIVE_EMPTY_BATCHES == 3
MIN_BATCH_DURATION_MS == 3000
DEFAULT_OPENCODE_PROMPT_BATCH_SIZE == 1
DEFAULT_OPENCODE_CONTRAST_BATCH_SIZE == 1
DEFAULT_OPENCODE_PROMPT_MAX_BATCHES == 50
\* Math.max(30, OPENCODE_TOTAL_TIMEOUT_SECONDS): the smallest budget accepted
totalTimeoutSeconds == 30
\* diagnostics.join(" | ").slice(0, 240) and compactFixerDiagnostic's cap
DiagnosticCap == 240
\* options?.timeoutMs ?? 120_000
DefaultTimeoutMs == 120000
DEFAULT_OPENCODE_TIMEOUT_SECONDS == 180
\* xrpl-escrow: the user can cancel and reclaim after this many seconds
CANCEL_AFTER_SECONDS == 300
SERVER_WAIT_TIMEOUT == 45000

ScanId == "scan-1"
OtherScanId == "scan-2"
\* a Violation row of another Scan, present in the table throughout
ForeignViolation ==
  [id |-> 0, scanId |-> OtherScanId, ruleId |-> "image-alt", impact |-> "minor"]

NoMsg == [kind |-> "null"]

Min(a, b) == IF a < b THEN a ELSE b
Max(a, b) == IF a > b THEN a ELSE b

RECURSIVE SumSeq(_)
SumSeq(s) == IF s = <<>> THEN 0 ELSE Head(s) + SumSeq(Tail(s))

RECURSIVE SeqOfSet(_)
\* the elements of a finite set of integers in ascending order
SeqOfSet(S) ==
  IF S = {} THEN <<>>
  ELSE LET m == CHOOSE x \in S : \A y \in S : x <= y
       IN <<m>> \o SeqOfSet(S \ {m})

RunIds == 1 .. RaceRuns
WorkerIds == 1 .. MAX_OPENCODE_WORKERS

VARIABLES
  env,          \* the environment: [nodes, runs, overlap, workers, ticks, rich]
  now,          \* Date.now() in ticks
  scan,         \* the Scan row: [status, errorMessage, score, scoreAfter] and
                \* the escrow fields [escrowOwner, escrowOfferSequence,
                \* escrowCancelAfter, escrowRefundedAt]
  violations,   \* the Violation table
  fixes,        \* the Fix table
  scanPc,       \* where runScan stands
  scanResults,  \* runScan: what the scan script reported
  scanTodo,     \* runScan: the rows of scanResults still to create
  gen,          \* generateFixes: per run, its position and locals
  wk,           \* runFixWorker: per run and worker, its position and locals
  streak,       \* per run, zero-fix batches returned in a row (observer)
  live,         \* the temp dirs and containers that exist: [kind, owner, held]
  ledger,       \* the XRPL escrow of the Scan and what was submitted on it
  refund,       \* POST /api/scan/[id]/refund-escrow: its position and response
  ex,           \* one call of execInSandbox: its locals, stream and promise
  calc,         \* one call of calculateAccessibilityScore: input and result
  call          \* one call of a helper of ai-fixer.ts: [fn, args, pc, result] and
                \* the log of what a loop over the result did

\* the state of the scan and fix pipeline
pipeline ==
  <<env, now, scan, violations, fixes, scanPc, scanResults, scanTodo, gen, wk, streak,
    live, ledger, refund>>

vars == <<pipeline, ex, calc, call>>

\* the helper call before it is made
CallIdle == [fn |-> "none", args |-> <<>>, pc |-> "idle", result |-> <<>>, log |-> <<>>]

\* a helper called on args
Called(fn, args) ==
  [fn |-> fn, args |-> args, pc |-> "called", result |-> <<>>, log |-> <<>>]

\* the call returns value
Return(value) ==
  /\ call.pc = "called"
  /\ call' = [call EXCEPT !.pc = "returned", !.result = <<value>>]
  /\ UNCHANGED <<pipeline, ex, calc>>

\* ------------------------------------------------------------------ wcag
getImpactWeight(impact) ==
  CASE impact = "critical" -> 10
    [] impact = "serious" -> 7
    [] impact = "moderate" -> 4
    [] impact = "minor" -> 1
    [] OTHER -> 1

\* Math.floor in the place of Math.round
RoundDivMutant(p, q) == p \div q

\* Math.round of the non-negative rational p / q
RoundDiv(p, q) == (2 * p + q) \div (2 * q)

\* every violation weighted as the first one
calculateAccessibilityScoreMutant(impacts) ==
  IF Len(impacts) = 0 THEN 100
  ELSE LET totalWeight == Len(impacts) * getImpactWeight(impacts[1])
           n == Len(impacts)
       IN Max(0, RoundDiv(100 * n - 10 * totalWeight, n))

\* violations: a sequence of impacts
calculateAccessibilityScore(impacts) ==
  IF Len(impacts) = 0 THEN 100
  ELSE LET totalWeight == SumSeq([i \in 1 .. Len(impacts) |-> getImpactWeight(impacts[i])])
           n == Len(impacts)
       IN Max(0, RoundDiv(100 * n - 10 * totalWeight, n))

\* the impact values of a Violation row: axe's four, and any other string
Impacts == {"critical", "serious", "moderate", "minor", "unknown"}

\* the lists calculateAccessibilityScore is called on
CalcInputs == UNION {[1 .. n -> Impacts] : n \in 0 .. MaxViolations}

CalcIdle == [pc |-> "idle", violations |-> <<>>, score |-> -1]

\* the call returns its score
CalcReturn ==
  /\ calc.pc = "called"
  /\ calc' = [calc EXCEPT !.pc = "returned",
                          !.score = calculateAccessibilityScore(calc.violations)]
  /\ UNCHANGED <<pipeline, ex, call>>

NextScore == CalcReturn

\* the impacts of a set of Violation rows, in id order
ImpactsOf(rows) ==
  LET ids == SeqOfSet({v.id : v \in rows})
  IN [i \in 1 .. Len(ids) |-> (CHOOSE v \in rows : v.id = ids[i]).impact]

ScanViolations(sid) == {v \in violations : v.scanId = sid}

\* ---------------------------------------------------------- execInSandbox
\* One call is followed from its entry to the settling of its promise.  The
\* container decides what the stream carries, when it ends or errors, and
\* whether exec.inspect() ever returns.

\* a frame of docker's multiplexed stream: streamType 1 = stdout, 2 = stderr
Frame(streamType, payload) == [streamType |-> streamType, payload |-> payload]

\* writeUInt32BE
BE32(n) ==
  <<(n \div 16777216) % 256, (n \div 65536) % 256, (n \div 256) % 256, n % 256>>

\* [stream_type(1)][0(3)][size(4 big-endian)][payload(size bytes)]
EncodeFrame(f) == <<f.streamType, 0, 0, 0>> \o BE32(Len(f.payload)) \o f.payload

RECURSIVE EncodeFrames(_)
EncodeFrames(frames) ==
  IF frames = <<>> THEN <<>>
  ELSE EncodeFrame(Head(frames)) \o EncodeFrames(Tail(frames))

\* what the command may write: nothing, one stdout frame, stderr then stdout,
\* two stdout frames
Outputs ==
  { <<>>,
    <<Frame(1, <<104>>)>>,
    <<Frame(2, <<33>>), Frame(1, <<104, 105>>)>>,
    <<Frame(1, <<104>>), Frame(1, <<105>>)>> }

\* the sizes in which the stream hands over its bytes: inside a header, a
\* whole one-byte frame, or all that is left
ChunkSizes == {HeaderCut, 8 + 1}

\* options.timeoutMs: absent (<<>>), or given
TimeoutOptions == {<<>>, <<ShortTimeoutMs>>}

ExIdle ==
  [pc |-> "idle", frames |-> <<>>, wire |-> <<>>, sent |-> 0,
   timeoutMs |-> 0, waited |-> 0, ticks |-> 0,
   timer |-> "none", settled |-> FALSE,
   destroyed |-> FALSE, ended |-> FALSE, errored |-> FALSE, inspect |-> "none",
   pendingBuf |-> <<>>, stdoutChunks |-> <<>>, stderrChunks |-> <<>>,
   promise |-> "pending", result |-> [stdout |-> <<>>, exitCode |-> 0], calls |-> 0]

\* pendingBuf.readUInt32BE(offset), offset counted from 0
readUInt32BE(buf, offset) ==
  buf[offset + 1] * 16777216 + buf[offset + 2] * 65536
    + buf[offset + 3] * 256 + buf[offset + 4]

RECURSIVE demuxPending(_)
\* every whole frame at the head of pendingBuf goes to its chunk list
demuxPending(e) ==
  IF Len(e.pendingBuf) < 8 THEN e
  ELSE LET streamType == e.pendingBuf[1]
           frameSize == readUInt32BE(e.pendingBuf, 4)
       IN IF Len(e.pendingBuf) < 8 + frameSize THEN e
          ELSE LET payload == SubSeq(e.pendingBuf, 9, 8 + frameSize)
               IN demuxPending(
                    [e EXCEPT
                       !.pendingBuf = SubSeq(@, 9 + frameSize, Len(@)),
                       !.stdoutChunks = IF streamType = 1 THEN Append(@, payload) ELSE @,
                       !.stderrChunks = IF streamType = 1 THEN @ ELSE Append(@, payload)])

RECURSIVE Concat(_)
\* Buffer.concat
Concat(chunks) == IF chunks = <<>> THEN <<>> ELSE Head(chunks) \o Concat(Tail(chunks))

\* resolve and reject of the returned promise: only the first call settles it
Resolve(e, stdout, exitCode) ==
  [e EXCEPT !.calls = @ + 1,
            !.promise = IF @ = "pending" THEN "resolved" ELSE @,
            !.result = IF e.promise = "pending"
                       THEN [stdout |-> stdout, exitCode |-> exitCode] ELSE @]

Reject(e) ==
  [e EXCEPT !.calls = @ + 1,
            !.promise = IF @ = "pending" THEN "rejected" ELSE @]

\* the setTimeout callback
OnTimeout(e) ==
  IF e.settled THEN e
  ELSE LET d == demuxPending([e EXCEPT !.settled = TRUE, !.destroyed = TRUE])
       IN Resolve(d, Concat(d.stdoutChunks), -1)

\* stream.on("data")
OnData(e, chunk) == demuxPending([e EXCEPT !.pendingBuf = @ \o chunk])

\* an "end" handler that does not look at settled
OnEndMutant(e) ==
  demuxPending([e EXCEPT !.settled = TRUE,
                         !.timer = IF @ = "armed" THEN "cleared" ELSE @,
                         !.inspect = "pending"])

\* stream.on("end"), up to its await of exec.inspect()
OnEnd(e) ==
  IF e.settled THEN e
  ELSE demuxPending([e EXCEPT !.settled = TRUE,
                              !.timer = IF @ = "armed" THEN "cleared" ELSE @,
                              !.inspect = "pending"])

\* stream.on("error")
OnError(e) ==
  IF e.settled THEN e
  ELSE Reject([e EXCEPT !.settled = TRUE,
                        !.timer = IF @ = "armed" THEN "cleared" ELSE @])

\* the call is made: the command's output and the timeout option are fixed
ExecInSandbox ==
  /\ ex.pc = "idle"
  /\ \E frames \in Outputs, timeoutMs \in TimeoutOptions :
       ex' = [ex EXCEPT !.pc = "exec",
                        !.frames = frames,
                        !.wire = EncodeFrames(frames),
                        !.timeoutMs = IF timeoutMs = <<>> THEN DefaultTimeoutMs
                                      ELSE timeoutMs[1]]
  /\ UNCHANGED <<pipeline, calc, call>>

\* await container.exec(...): it returns, or it throws and the call rejects
ExecCreate ==
  /\ ex.pc = "exec"
  /\ \/ ex' = [ex EXCEPT !.pc = "start"]
     \/ ex' = Reject([ex EXCEPT !.pc = "returned"])
  /\ UNCHANGED <<pipeline, calc, call>>

\* await exec.start(...): the promise is made, the timer set, the handlers put
ExecStart ==
  /\ ex.pc = "start"
  /\ \/ ex' = [ex EXCEPT !.pc = "attached", !.timer = "armed"]
     \/ ex' = Reject([ex EXCEPT !.pc = "returned"])
  /\ UNCHANGED <<pipeline, calc, call>>

\* whether the timer is set and its delay has passed
TimerDue == ex.timer = "armed" /\ ex.waited >= ex.timeoutMs

\* time passes while the call is pending; a timer that is due runs first
ExecTick ==
  /\ ex.pc = "attached"
  /\ ex.promise = "pending"
  /\ ex.ticks < MaxExecTicks
  /\ ~TimerDue
  /\ ex' = [ex EXCEPT !.waited = @ + ExecTickMs, !.ticks = @ + 1]
  /\ UNCHANGED <<pipeline, calc, call>>

\* the stream hands over its next bytes
StreamData ==
  /\ ex.pc = "attached"
  /\ ~ex.destroyed /\ ~ex.ended /\ ~ex.errored
  /\ ex.wire # <<>>
  /\ \E n \in ChunkSizes \cup {Len(ex.wire)} :
       /\ n <= Len(ex.wire)
       /\ ex' = OnData([ex EXCEPT !.wire = SubSeq(@, n + 1, Len(@)), !.sent = @ + n],
                       SubSeq(ex.wire, 1, n))
  /\ UNCHANGED <<pipeline, calc, call>>

\* the timer fires
ExecTimeout ==
  /\ ex.pc = "attached"
  /\ TimerDue
  /\ ex' = OnTimeout([ex EXCEPT !.timer = "fired"])
  /\ UNCHANGED <<pipeline, calc, call>>

\* the stream emits "end": at most once, and not after an error
StreamEnd ==
  /\ ex.pc = "attached"
  /\ ~ex.ended /\ ~ex.errored
  /\ ex' = OnEnd([ex EXCEPT !.ended = TRUE])
  /\ UNCHANGED <<pipeline, calc, call>>

\* the stream emits "error": at most once
StreamError ==
  /\ ex.pc = "attached"
  /\ ~ex.errored
  /\ ex' = OnError([ex EXCEPT !.errored = TRUE])
  /\ UNCHANGED <<pipeline, calc, call>>

\* exec.inspect() returns with an ExitCode or with none (<<>>), or throws
ExecInspect ==
  /\ ex.pc = "attached"
  /\ ex.inspect = "pending"
  /\ \/ \E ExitCode \in {<<0>>, <<2>>, <<>>} :
          ex' = Resolve([ex EXCEPT !.inspect = "returned"], Concat(ex.stdoutChunks),
                        IF ExitCode = <<>> THEN 1 ELSE ExitCode[1])
     \/ ex' = Reject([ex EXCEPT !.inspect = "threw"])
  /\ UNCHANGED <<pipeline, calc, call>>

NextExec ==
  \/ ExecInSandbox
  \/ ExecCreate
  \/ ExecStart
  \/ ExecTick
  \/ StreamData
  \/ ExecTimeout
  \/ StreamEnd
  \/ StreamError
  \/ ExecInspect

\* ------------------------------------------------------------ error texts
\* An error text is a tag for what it says.  cloneRepo throws
\* `git clone failed: ${details}` with git's own output as details: "clone"
\* when that output does not show the URL git was given, "clone-url" when it
\* echoes it, x-access-token:<token>@github.com included.
CloneErrors == {"clone", "clone-url"}

\* sanitizeDiagnostic: the credentials of an echoed URL are replaced by ***
sanitizeDiagnostic(text) == IF text = "clone-url" THEN "clone-masked" ELSE text

\* whether a stored errorMessage contains the access token
TokenIn(msg) == msg.kind = "error" /\ msg.cause = "clone-url"

\* ------------------------------------------------- temp dirs and sandboxes
\* who made a resource: runScan, generateFixes run r, worker w of run r
ScanOwner == <<0, 0>>
RunOwner(r) == <<r, 0>>
WorkerOwner(r, w) == <<r, w>>

\* createTempDirs / createSandbox returned: the caller's `dirs` / `sandbox`
\* holds the resource
Created(S, kind, owner) == S \cup {[kind |-> kind, owner |-> owner, held |-> TRUE]}

\* createSandbox: docker.createContainer returned and container.start()
\* threw, so the container exists and the caller's `sandbox` is still null
StartThrew(S, owner) == S \cup {[kind |-> "box", owner |-> owner, held |-> FALSE]}

\* the finally block: if (sandbox) destroySandbox; if (dirs) cleanupTempDirs
Finally(S, owner) == {x \in S : ~(x.owner = owner /\ x.held)}

\* runScan's finally, in the step in which it is left
ScanFinally == live' = IF scanPc' = "done" THEN Finally(live, ScanOwner) ELSE live

\* generateFixes' finally, in the step in which run r returns
RunFinally(r) == live' = IF gen'[r].pc = "done" THEN Finally(live, RunOwner(r)) ELSE live

\* runFixWorker's finally, in the step in which worker w returns
WorkerFinally(r, w) ==
  live' = IF wk'[r][w].pc = "done" THEN Finally(live, WorkerOwner(r, w)) ELSE live

\* how the making of a sandbox can end: createSandbox returns; something
\* throws with no container made or with `sandbox` set; container.start()
\* throws inside createSandbox
SandboxOutcomes == {"ok", "threw", "start"}

\* the resources after the step that makes the sandbox of `owner`
AfterSandbox(S, owner, outcome) ==
  CASE outcome = "ok" -> Created(S, "box", owner)
    [] outcome = "threw" -> Finally(S, owner)
    [] OTHER -> StartThrew(Finally(S, owner), owner)

\* ---------------------------------------------------------------- escrow
\* the address of the user's wallet
UserWallet == "rUser"

\* the ledger before the Scan's escrow exists
LedgerIdle == [escrow |-> "none", sequence |-> -1, cancelAfter |-> -1, cancels |-> 0]

\* createEscrow: EscrowCreate with CancelAfter = now + CANCEL_AFTER_SECONDS;
\* cancelAfterDate is that instant in ms
createEscrow(l) ==
  [l EXCEPT !.escrow = "locked", !.sequence = 1,
            !.cancelAfter = now * TickMs + CANCEL_AFTER_SECONDS * 1000]

\* the refund handler between requests
RefundIdle == [pc |-> "idle", requests |-> 0, response |-> "none", read |-> <<>>, readAt |-> 0]

\* --------------------------------------------------------------- runScan
\* what axe reports for a page with n offending nodes: image-alt (critical)
\* on the first half, rounded up, color-contrast (serious) on the rest
AxeResult(n) ==
  LET a == (n + 1) \div 2
      b == n \div 2
  IN (IF a > 0
      THEN <<[id |-> "image-alt", impact |-> "critical", nodes |-> a,
              description |-> "images have alternate text",
              helpUrl |-> "rules/axe/image-alt",
              tags |-> <<"cat.text-alternatives", "wcag2a", "wcag111">>]>>
      ELSE <<>>)
     \o (IF b > 0
         THEN <<[id |-> "color-contrast", impact |-> "serious", nodes |-> b,
                 description |-> "elements meet the contrast ratio",
                 helpUrl |-> "rules/axe/color-contrast",
                 tags |-> <<"cat.color", "wcag2aa", "wcag143">>]>>
         ELSE <<>>)

\* /^wcag\d+$/.test(tag) || /^wcag\d{3,}$/.test(tag), on the tags above
IsCriterionTag(tag) == tag \in {"wcag111", "wcag143"}

\* tags.filter(...), kept as the list that join(",") writes out
extractWcagCriteria(tags) == SelectSeq(tags, IsCriterionTag)

\* one entry per rule
FlattenNodesMutant(results) ==
  [k \in 1 .. Len(results) |->
     [ruleId |-> results[k].id, impact |-> results[k].impact,
      description |-> results[k].description, helpUrl |-> results[k].helpUrl,
      wcagCriteria |-> extractWcagCriteria(results[k].tags),
      score |-> getImpactWeight(results[k].impact)]]

RECURSIVE FlattenNodes(_)
\* one entry per affected node, in the order of the two nested loops
FlattenNodes(results) ==
  IF results = <<>> THEN <<>>
  ELSE LET violation == Head(results)
           wcagCriteria == extractWcagCriteria(violation.tags)
           weight == getImpactWeight(violation.impact)
       IN [k \in 1 .. violation.nodes |->
             [ruleId |-> violation.id, impact |-> violation.impact,
              description |-> violation.description, helpUrl |-> violation.helpUrl,
              wcagCriteria |-> wcagCriteria, score |-> weight]]
          \o FlattenNodes(Tail(results))

\* the locals of one batch loop (generateFixes' own, or a worker's)
LoopIdle ==
  [i |-> 1, consec |-> 0, attempted |-> 0, processed |-> 0, fixes |-> <<>>,
   diags |-> <<>>, warning |-> "null", startMs |-> 0, agentDiag |-> FALSE]

\* the locals of one generateFixes run
GenIdle ==
  [pc |-> "idle", snap |-> {}, score |-> -1, startedAt |-> 0, groups |-> <<>>,
   L |-> LoopIdle, applyWarning |-> FALSE]

GenDone == [GenIdle EXCEPT !.pc = "done"]

NextViolationId == 1 + Cardinality(ScanViolations(ScanId))

\* nodes: most nodes axe reports; runs: most fix requests; overlap: whether a
\* fix request may arrive while the scan or another fix run is under way;
\* workers: OPENCODE_WORKERS; ticks: how far the clock advances; rich: whether
\* the agent's fixes may name other violations than the batch's
Environments ==
  {[nodes |-> RaceNodes, runs |-> RaceRuns, overlap |-> TRUE, workers |-> 1,
    ticks |-> 0, rich |-> TRUE]}
  \cup {[nodes |-> AgentNodes, runs |-> 1, overlap |-> FALSE, workers |-> w,
          ticks |-> 0, rich |-> TRUE] : w \in 1 .. MaxConfiguredWorkers}
  \cup {[nodes |-> ClockNodes, runs |-> 1, overlap |-> FALSE, workers |-> w,
          ticks |-> MaxTicks, rich |-> FALSE] : w \in 1 .. MaxConfiguredWorkers}

InitPipeline ==
  /\ now = 0
  /\ scan = [status |-> "none", errorMessage |-> NoMsg, score |-> -1, scoreAfter |-> -1,
             escrowOwner |-> "null", escrowOfferSequence |-> -1,
             escrowCancelAfter |-> -1, escrowRefundedAt |-> -1]
  /\ violations = {ForeignViolation}
  /\ fixes = {}
  /\ scanPc = "idle"
  /\ scanResults = <<>>
  /\ scanTodo = <<>>
  /\ gen = [r \in RunIds |-> GenIdle]
  /\ wk = [r \in RunIds |-> <<>>]
  /\ streak = [r \in RunIds |-> 0]
  /\ live = {}
  /\ ledger = LedgerIdle
  /\ refund = RefundIdle

Init ==
  /\ env \in Environments
  /\ InitPipeline
  /\ ex = ExIdle
  /\ calc = CalcIdle
  /\ call = CallIdle

\* POST /api/scan: the escrow is created (a failure returns 502 with nothing
\* made), the row is created pending with the escrow's fields and runScan is
\* started
ScanRequest ==
  /\ scanPc = "idle"
  /\ scan.status = "none"
  /\ ledger' = createEscrow(ledger)
  /\ scan' = [scan EXCEPT !.status = "pending",
                          !.escrowOwner = UserWallet,
                          !.escrowOfferSequence = ledger'.sequence,
                          !.escrowCancelAfter = ledger'.cancelAfter]
  /\ scanPc' = "start"
  /\ UNCHANGED <<scanResults, call, refund, ex, calc, env, now, violations, fixes, scanTodo, gen, wk, streak>>
  /\ UNCHANGED live

ScanCatchMutant(cause) ==
  /\ scan' = [scan EXCEPT !.errorMessage = [kind |-> "error", cause |-> cause]]
  /\ scanPc' = "done"
  /\ scanTodo' = <<>>

\* the catch block of runScan
ScanCatch(cause) ==
  /\ scan' = [scan EXCEPT !.status = "failed",
                          !.errorMessage = [kind |-> "error", cause |-> cause]]
  /\ scanPc' = "done"
  /\ scanTodo' = <<>>

ScanCloning ==
  /\ scanPc = "start"
  /\ scan' = [scan EXCEPT !.status = "cloning"]
  /\ scanPc' = "clone"
  /\ UNCHANGED <<scanResults, call, ledger, refund, ex, calc, env, now, violations, fixes, scanTodo, gen, wk, streak>>
  /\ UNCHANGED live

\* createTempDirs, cloneRepo, then the write of "scanning"
ScanClone ==
  /\ scanPc = "clone"
  /\ \E ok \in BOOLEAN :
       IF ok
       THEN /\ scan' = [scan EXCEPT !.status = "scanning"]
            /\ scanPc' = "sandbox"
            /\ UNCHANGED scanTodo
       ELSE \E text \in CloneErrors : ScanCatch(text)
  /\ UNCHANGED <<scanResults, call, ledger, refund, ex, calc, env, now, violations, fixes, gen, wk, streak>>
  /\ live' = IF scanPc' = "done" THEN Finally(live, ScanOwner)
             ELSE Created(live, "dir", ScanOwner)

\* createSandbox and the dependency install
ScanSandbox ==
  /\ scanPc = "sandbox"
  /\ \E outcome \in SandboxOutcomes :
       /\ IF outcome = "ok"
          THEN /\ scanPc' = "script"
               /\ UNCHANGED <<scan, scanTodo>>
          ELSE ScanCatch("sandbox")
       /\ live' = AfterSandbox(live, ScanOwner, outcome)
  /\ UNCHANGED <<scanResults, call, ledger, refund, ex, calc, env, now, violations, fixes, gen, wk, streak>>

\* the in-sandbox script: exec throws, or no results file, or results
ScanScript ==
  /\ scanPc = "script"
  /\ \/ ScanCatch("exec") /\ UNCHANGED scanResults
     \/ \E cause \in {"noapp", "script"} :
          /\ scan' = [scan EXCEPT !.status = "failed",
                                  !.errorMessage = [kind |-> "error", cause |-> cause]]
          /\ scanPc' = "done"
          /\ UNCHANGED <<scanResults, scanTodo>>
     \/ \E n \in 0 .. env.nodes :
          /\ scanResults' = AxeResult(n)
          /\ scanTodo' = FlattenNodes(scanResults')
          /\ scanPc' = "persist"
          /\ UNCHANGED scan
  /\ UNCHANGED <<call, ledger, refund, ex, calc, env, now, violations, fixes, gen, wk, streak>>
  /\ ScanFinally

\* prisma.violation.create for the next node
ScanPersistRow ==
  /\ scanPc = "persist"
  /\ scanTodo # <<>>
  /\ violations' = violations \cup
       {[id |-> NextViolationId, scanId |-> ScanId,
         ruleId |-> Head(scanTodo).ruleId, impact |-> Head(scanTodo).impact,
         description |-> Head(scanTodo).description, helpUrl |-> Head(scanTodo).helpUrl,
         wcagCriteria |-> Head(scanTodo).wcagCriteria, score |-> Head(scanTodo).score]}
  /\ scanTodo' = Tail(scanTodo)
  /\ UNCHANGED <<scanResults, call, ledger, refund, ex, calc, env, now, scan, fixes, scanPc, gen, wk, streak>>
  /\ UNCHANGED live

\* findMany, the score, and the write of "complete"
ScanComplete ==
  /\ scanPc = "persist"
  /\ scanTodo = <<>>
  /\ scan' = [scan EXCEPT !.status = "complete",
                          !.score = calculateAccessibilityScore(
                                      ImpactsOf(ScanViolations(ScanId)))]
  /\ scanPc' = "done"
  /\ UNCHANGED <<scanResults, call, ledger, refund, ex, calc, env, now, violations, fixes, scanTodo, gen, wk, streak>>
  /\ live' = Finally(live, ScanOwner)

\* ------------------------------------------------------- the scan script
\* The script that runs in the sandbox and the part of runScan that waits for
\* it, followed on their own.  A repository is what each directory with a
\* dev, start or serve script does when the script is run (dev), whether a
\* probed port answers without anything being launched (listening), and what
\* each index.html candidate that exists does (static).
\* The record holds the script's locals devServer, staticServer and url (0 is
\* null), the processes it spawned that are alive (procs), the number it
\* spawned, its position in the two loops, its exit code in result, the time
\* it has run, the files it wrote to /output, the state of runScan's
\* execInSandbox call, and what runScan then wrote to the Scan.
DevBehaviours == {"unreadable", "serves", "exits", "silent"}
StaticBehaviours == {"nostart", "renders", "blank"}

RECURSIVE Lists(_, _)
\* the lists of n elements of S
Lists(S, n) ==
  IF n = 0 THEN {<<>>} ELSE {Append(l, x) : l \in Lists(S, n - 1), x \in S}

Repositories ==
  {[dev |-> d, listening |-> l, static |-> f] :
     d \in UNION {Lists(DevBehaviours, n) : n \in 0 .. MaxDevDirs},
     l \in BOOLEAN,
     f \in UNION {Lists(StaticBehaviours, n) : n \in 0 .. MaxStaticFiles}}

ScriptStart(repo) ==
  [fn |-> "scanScript", args |-> <<repo>>, pc |-> "dev", result |-> <<>>,
   log |-> <<>>, i |-> 1, devServer |-> 0, staticServer |-> 0, url |-> FALSE,
   procs |-> {}, spawned |-> 0,
   elapsed |-> 0, errorFile |-> "none", resultsFile |-> FALSE,
   exec |-> "pending", exitCode |-> 0,
   status |-> "scanning", errorMessage |-> "none", rows |-> 0]

\* killProcess(proc): nothing for null, else SIGKILL to the process group
killProcess(procs, proc) == IF proc = 0 THEN procs ELSE procs \ {proc}

\* The script has run ms longer.  execInSandbox's timer, set to the default
\* timeout, goes off when the script is still running at that time: the call
\* resolves with exit code -1.
Elapse(c, ms) ==
  LET t == c.elapsed + ms
  IN [c EXCEPT !.elapsed = t,
               !.exec = IF @ = "pending" /\ t >= DefaultTimeoutMs THEN "timeout" ELSE @,
               !.exitCode = IF c.exec = "pending" /\ t >= DefaultTimeoutMs THEN -1 ELSE @]

\* process.exit(code): the script's children are detached and stay as they
\* are; a pending execInSandbox call resolves with the code
ScriptExit(c, code) ==
  [c EXCEPT !.pc = "exited", !.result = <<code>>,
            !.exec = IF @ = "pending" THEN "returned" ELSE @,
            !.exitCode = IF c.exec = "pending" THEN code ELSE @]

\* the .catch of the async body: the error file is written, exit 1
ScriptCatch(c) == ScriptExit([c EXCEPT !.errorFile = "thrown"], 1)

\* the script runs until it exits or runScan's finally destroys the sandbox
ScriptAt(pc) ==
  /\ call.fn = "scanScript"
  /\ call.pc = pc
  /\ call.status = "scanning"

\* One directory of the dev-server loop: package.json cannot be read; or npm
\* run is spawned and a port answers (break), or the server exits by itself,
\* or the wait runs out, and then killProcess(devServer), devServer = null.
ScriptDevServer ==
  /\ ScriptAt("dev")
  /\ call.i <= Len(call.args[1].dev)
  /\ LET pid == call.spawned + 1
         outcome == call.args[1].dev[call.i]
     IN call' =
          CASE outcome = "unreadable" -> [call EXCEPT !.i = @ + 1]
            [] outcome = "serves" ->
                 [call EXCEPT !.spawned = pid, !.procs = @ \cup {pid},
                              !.devServer = pid, !.url = TRUE, !.pc = "shot"]
            [] outcome = "exits" ->
                 [call EXCEPT !.spawned = pid, !.procs = killProcess(@, pid),
                              !.devServer = 0, !.i = @ + 1]
            [] outcome = "silent" ->
                 Elapse([call EXCEPT !.spawned = pid,
                                     !.procs = killProcess(@ \cup {pid}, pid),
                                     !.devServer = 0, !.i = @ + 1],
                        SERVER_WAIT_TIMEOUT)
  /\ UNCHANGED <<pipeline, ex, calc>>

\* after the loop: tryConnectToPort on a server that is already running
ScriptConnect ==
  /\ ScriptAt("dev")
  /\ call.i > Len(call.args[1].dev)
  /\ LET answered == call.args[1].listening
     IN call' = [call EXCEPT !.url = answered, !.i = 1,
                             !.pc = IF answered THEN "shot" ELSE "static"]
  /\ UNCHANGED <<pipeline, ex, calc>>

\* One index.html candidate: no static server starts; or one is started and
\* the page renders (break), or the page fails and killProcess(started.proc).
ScriptStaticCandidate ==
  /\ ScriptAt("static")
  /\ call.i <= Len(call.args[1].static)
  /\ LET pid == call.spawned + 1
         outcome == call.args[1].static[call.i]
     IN call' =
          CASE outcome = "nostart" ->
                 [call EXCEPT !.spawned = pid, !.procs = killProcess(@, pid),
                              !.i = @ + 1]
            [] outcome = "renders" ->
                 [call EXCEPT !.spawned = pid, !.procs = @ \cup {pid},
                              !.staticServer = pid, !.url = TRUE, !.pc = "shot"]
            [] outcome = "blank" ->
                 [call EXCEPT !.spawned = pid,
                              !.procs = killProcess(@ \cup {pid}, pid),
                              !.i = @ + 1]
  /\ UNCHANGED <<pipeline, ex, calc>>

\* the two kills before process.exit on the paths that reach them
KillServers(c) ==
  [c EXCEPT !.procs = killProcess(killProcess(@, c.devServer), c.staticServer)]

\* if (!url): the error file, the kills, exit 1
ScriptNoApp ==
  /\ ScriptAt("static")
  /\ call.i > Len(call.args[1].static)
  /\ call' = ScriptExit(KillServers([call EXCEPT !.errorFile = "noapp"]), 1)
  /\ UNCHANGED <<pipeline, ex, calc>>

\* page.screenshot: it returns, or it throws into the .catch
ScriptScreenshot ==
  /\ ScriptAt("shot")
  /\ \E thrown \in BOOLEAN :
       call' = IF thrown THEN ScriptCatch(call) ELSE [call EXCEPT !.pc = "analyze"]
  /\ UNCHANGED <<pipeline, ex, calc>>

\* AxeBuilder.analyze: it throws into the .catch, or the results are written,
\* the servers killed, exit 0
ScriptAnalyze ==
  /\ ScriptAt("analyze")
  /\ \E thrown \in BOOLEAN :
       call' = IF thrown THEN ScriptCatch(call)
               ELSE ScriptExit(KillServers([call EXCEPT !.resultsFile = TRUE]), 0)
  /\ UNCHANGED <<pipeline, ex, calc>>

\* container.exec or exec.start throws: runScan's catch writes the error
ScanExecThrows ==
  /\ ScriptAt("dev")
  /\ call.i = 1
  /\ call.exec = "pending"
  /\ call' = [call EXCEPT !.exec = "threw", !.status = "failed",
                          !.errorMessage = "exec"]
  /\ UNCHANGED <<pipeline, ex, calc>>

\* what runScan does with the files in /output once execInSandbox resolved:
\* the results are stored, or the Scan fails with the error file's text, or
\* with "Scan script failed (exit N)" when there is no error file either
ScanReadResult(c) ==
  IF c.resultsFile
  THEN [c EXCEPT !.status = "complete", !.rows = 1]
  ELSE [c EXCEPT !.status = "failed",
                 !.errorMessage = IF c.errorFile = "none" THEN "script" ELSE c.errorFile]

\* execInSandbox has resolved: runScan goes on
ScanAfterScript ==
  /\ call.fn = "scanScript"
  /\ call.exec \in {"returned", "timeout"}
  /\ call.status = "scanning"
  /\ call' = ScanReadResult(call)
  /\ UNCHANGED <<pipeline, ex, calc>>

\* ------------------------------------------------------ diagnostics text
\* A text is a sequence of segments [tag, len]: what the segment says and how
\* many characters it takes.  Lengths are those of the literals in the source,
\* with one-digit numbers; an agent diagnostic has the full 240 characters.
\* `worker ${params.workerId} error: ...`: the entry names its worker
WorkerErrorTag(workerId) ==
  CASE workerId = 1 -> "werror1"
    [] workerId = 2 -> "werror2"
    [] workerId = 3 -> "werror3"
    [] workerId = 4 -> "werror4"
    [] workerId = 5 -> "werror5"
    [] OTHER -> "werror6"

DiagLen(tag) ==
  CASE tag = "budget" -> 30      \* overall timeout budget reached
    [] tag = "bail" -> 39        \* early bail: 3 consecutive empty batches
    [] tag = "instant" -> 63     \* batch 1: completed in 0ms with 0 fixes (...)
    [] tag = "agent" -> 9 + DiagnosticCap     \* batch 1: <diagnostic>
    [] tag = "limit" -> 24       \* batch limit reached (50)
    [] tag = "parallel" -> 38    \* parallel subagents enabled (2 workers)
    [] tag = "applied" -> 43     \* applied 1/1 fix snippet(s) across 1 file(s)
    [] tag = "wbudget" -> 40     \* worker 1: overall timeout budget reached
    [] tag = "wbail" -> 42       \* worker 1: early bail after 3 empty batches
    [] tag = "winstant" -> 52    \* worker 1 batch 1: 0ms with 0 fixes (...)
    [] tag = "wagent" -> 18 + DiagnosticCap   \* worker 1 batch 1: <diagnostic>
    [] tag \in {WorkerErrorTag(w) : w \in WorkerIds} -> 40   \* worker 1 error: <message>
    [] OTHER -> 20

\* how many characters of the segment must survive for its key word to be read
KeywordEnd(tag) ==
  CASE tag = "budget" -> 22
    [] tag = "wbudget" -> 32
    [] tag = "bail" -> 39
    [] tag = "wbail" -> 42
    [] OTHER -> DiagLen(tag)

RECURSIVE JoinDiagnostics(_)
\* diagnostics.join(" | ")
JoinDiagnostics(diags) ==
  IF diags = <<>> THEN <<>>
  ELSE <<[tag |-> Head(diags), len |-> DiagLen(Head(diags))]>>
       \o (IF Tail(diags) = <<>> THEN <<>> ELSE <<[tag |-> "sep", len |-> 3]>>)
       \o JoinDiagnostics(Tail(diags))

RECURSIVE SliceText(_, _)
\* text.slice(0, n)
SliceText(text, n) ==
  IF text = <<>> \/ n <= 0 THEN <<>>
  ELSE <<[tag |-> Head(text).tag, len |-> Min(Head(text).len, n)]>>
       \o SliceText(Tail(text), n - Head(text).len)

Mentions(text, tags) ==
  \E k \in 1 .. Len(text) : text[k].tag \in tags /\ text[k].len >= KeywordEnd(text[k].tag)

\* ------------------------------------------------------- batch planning
\* ruleId.toLowerCase().includes("contrast"): the rule ids that contain it
isContrastRule(ruleId) == ruleId \in {"color-contrast", "color-contrast-enhanced"}

rulePriority(ruleId) ==
  IF ruleId = "color-contrast" THEN 3 ELSE IF isContrastRule(ruleId) THEN 2 ELSE 0

impactPriority(impact) ==
  CASE impact = "critical" -> 4
    [] impact = "serious" -> 3
    [] impact = "moderate" -> 2
    [] impact = "minor" -> 1
    [] OTHER -> 0

\* the comparator without the impact
SortsBeforeMutant(a, b) ==
  IF rulePriority(a.ruleId) # rulePriority(b.ruleId)
  THEN rulePriority(a.ruleId) > rulePriority(b.ruleId)
  ELSE a.id < b.id

\* the comparator of violationsSummary.sort: a comes before b
SortsBefore(a, b) ==
  IF rulePriority(a.ruleId) # rulePriority(b.ruleId)
  THEN rulePriority(a.ruleId) > rulePriority(b.ruleId)
  ELSE IF impactPriority(a.impact) # impactPriority(b.impact)
       THEN impactPriority(a.impact) > impactPriority(b.impact)
       ELSE a.id < b.id

violationsSummary(snap) ==
  LET ids == SeqOfSet({v.id : v \in snap})
      rows == [i \in 1 .. Len(ids) |-> CHOOSE v \in snap : v.id = ids[i]]
  IN SortSeq(rows, SortsBefore)

RECURSIVE Chunks(_, _)
\* for (offset = 0; offset < list.length; offset += size) list.slice(offset, offset + size)
Chunks(ids, size) ==
  IF ids = <<>> THEN <<>>
  ELSE <<SubSeq(ids, 1, Min(size, Len(ids)))>>
       \o Chunks(SubSeq(ids, Min(size, Len(ids)) + 1, Len(ids)), size)

queuedBatches(snap) ==
  LET sorted == violationsSummary(snap)
      contrast == SelectSeq(sorted, LAMBDA v : isContrastRule(v.ruleId))
      others == SelectSeq(sorted, LAMBDA v : ~isContrastRule(v.ruleId))
      idsOf(s) == [i \in 1 .. Len(s) |-> s[i].id]
  IN Chunks(idsOf(contrast), DEFAULT_OPENCODE_CONTRAST_BATCH_SIZE)
     \o Chunks(idsOf(others), DEFAULT_OPENCODE_PROMPT_BATCH_SIZE)

RECURSIVE DedupBatches(_, _)
\* drop the ids an earlier batch holds, and the batches left empty
DedupBatches(batches, seen) ==
  IF batches = <<>> THEN <<>>
  ELSE LET fresh == SelectSeq(Head(batches), LAMBDA id : id \notin seen)
           ids == {fresh[i] : i \in 1 .. Len(fresh)}
       IN (IF fresh = <<>> THEN <<>> ELSE <<fresh>>)
          \o DedupBatches(Tail(batches), seen \cup ids)

batchesToRun(snap) ==
  LET deduped == DedupBatches(queuedBatches(snap), {})
  IN SubSeq(deduped, 1, Min(Len(deduped), DEFAULT_OPENCODE_PROMPT_MAX_BATCHES))

\* the diagnostics pushed while planning
PlanDiagnostics(snap) ==
  LET queued == queuedBatches(snap)
      deduped == DedupBatches(queued, {})
  IN (IF Len(deduped) > DEFAULT_OPENCODE_PROMPT_MAX_BATCHES THEN <<"limit">> ELSE <<>>)
     \o (IF Len(deduped) < Len(queued) THEN <<"deduped">> ELSE <<>>)

configuredWorkers == Max(1, Min(MAX_OPENCODE_WORKERS, env.workers))

\* the index taken from 1 in the place of 0
partitionBatchesMutant(batches, workerCount) ==
  IF Len(batches) = 0 THEN <<>>
  ELSE LET g == Max(1, Min(workerCount, Len(batches)))
           groups == [k \in 1 .. g |->
                        LET idx == SelectSeq([i \in 1 .. Len(batches) |-> i],
                                             LAMBDA i : i % g = k - 1)
                        IN [j \in 1 .. Len(idx) |-> batches[idx[j]]]]
       IN SelectSeq(groups, LAMBDA grp : Len(grp) > 0)

partitionBatches(batches, workerCount) ==
  IF Len(batches) = 0 THEN <<>>
  ELSE LET g == Max(1, Min(workerCount, Len(batches)))
           groups == [k \in 1 .. g |->
                        LET idx == SelectSeq([i \in 1 .. Len(batches) |-> i],
                                             LAMBDA i : (i - 1) % g = k - 1)
                        IN [j \in 1 .. Len(idx) |-> batches[idx[j]]]]
       IN SelectSeq(groups, LAMBDA grp : Len(grp) > 0)

\* Math.max(1, Math.min(MAX_OPENCODE_WORKERS, parseIntegerEnv(OPENCODE_WORKERS)))
clampWorkers(raw) == Max(1, Min(MAX_OPENCODE_WORKERS, raw))

\* batchesToRun of n batches, each named by its position, and OPENCODE_WORKERS
PartitionInputs ==
  {<<[i \in 1 .. n |-> <<i>>], raw>> : n \in 0 .. MaxBatches, raw \in 0 .. MaxWorkerSetting}

PartitionReturn ==
  /\ call.fn = "partitionBatches"
  /\ Return(partitionBatches(call.args[1], clampWorkers(call.args[2])))

\* the rules and impacts of the Violation rows a plan is made for
PlanRules == {"color-contrast", "color-contrast-enhanced", "image-alt"}
PlanImpacts == {"critical", "minor"}

\* scan.violations: up to MaxPlanRows rows with ids from 1
PlanSnapshots ==
  UNION {{{[id |-> i, scanId |-> ScanId, ruleId |-> f[i][1], impact |-> f[i][2]] : i \in 1 .. n} :
            f \in [1 .. n -> PlanRules \X PlanImpacts]} : n \in 1 .. MaxPlanRows}

\* the plan of a run: workerBatchGroups
PlanReturn ==
  /\ call.fn = "plan"
  /\ Return(partitionBatches(batchesToRun(call.args[1]), clampWorkers(call.args[2])))

\* the batches worker w has invoked
InvokedBy(w) == SelectSeq(call.log, LAMBDA e : e[1] = w)

\* the for loop of generateFixes or of a worker over its group: the next
\* batch's agent is invoked once the one before has returned
InvokeBatch(w) ==
  /\ call.fn = "plan"
  /\ call.pc = "returned"
  /\ w \in 1 .. Len(call.result[1])
  /\ Len(InvokedBy(w)) < Len(call.result[1][w])
  /\ call' = [call EXCEPT
       !.log = Append(@, <<w, call.result[1][w][Len(InvokedBy(w)) + 1]>>)]
  /\ UNCHANGED <<pipeline, ex, calc>>

\* ------------------------------------------------------------ the tables
\* fixesByViolation.set(k, v)
MapSet(m, k, v) == [x \in (DOMAIN m) \cup {k} |-> IF x = k THEN v ELSE m[x]]

UpsertMutant(rows, sid, vid, code) ==
  rows \cup {[violationId |-> vid, scanId |-> sid, code |-> code]}

\* prisma.fix.upsert({ where: { violationId }, update, create })
Upsert(rows, sid, vid, code) ==
  IF \E f \in rows : f.violationId = vid
  THEN {IF f.violationId = vid THEN [f EXCEPT !.code = code] ELSE f : f \in rows}
  ELSE rows \cup {[violationId |-> vid, scanId |-> sid, code |-> code]}

\* prisma.fix.deleteMany({ where: { scanId } })
DeleteMany(rows, sid) == {f \in rows : f.scanId # sid}

RECURSIVE Dedupe(_)
\* Array.from(new Set(ids)): first occurrences, in order
Dedupe(s) ==
  IF s = <<>> THEN <<>>
  ELSE <<Head(s)>> \o Dedupe(SelectSeq(Tail(s), LAMBDA x : x # Head(s)))

\* the raw violationId is modelled by the tokens its split yields
extractViolationIds(rawTokens, fallbackViolationIds) ==
  LET fallbackSingle ==
        IF Len(fallbackViolationIds) = 1 THEN <<fallbackViolationIds[1]>> ELSE <<>>
      source == IF rawTokens # <<>> THEN rawTokens ELSE fallbackSingle
  IN Dedupe(source)

\* normalizeRepoFilePath: "" stays "", the rest is kept repo-relative
normalizeRepoFilePath(filePath) == IF filePath = "" THEN "" ELSE "repo-file"

IsValidViolationMutant(vid, snap) == TRUE

\* violationById.get(violationId) / validViolationIds.has(violationId)
IsValidViolation(vid, snap) == \E v \in snap : v.id = vid

RECURSIVE StoredPairs(_, _, _)
\* the <<violationId, code>> pairs the two nested loops store, in order
StoredPairs(batchFixes, batchIds, snap) ==
  IF batchFixes = <<>> THEN <<>>
  ELSE LET fix == Head(batchFixes)
           ids == extractViolationIds(fix.violationId, batchIds)
           kept == IF normalizeRepoFilePath(fix.filePath) = "" THEN <<>>
                   ELSE SelectSeq(ids, LAMBDA id : IsValidViolation(id, snap))
       IN [k \in 1 .. Len(kept) |-> <<kept[k], fix.code>>]
          \o StoredPairs(Tail(batchFixes), batchIds, snap)

RECURSIVE SetAll(_, _)
SetAll(m, pairs) ==
  IF pairs = <<>> THEN m ELSE SetAll(MapSet(m, Head(pairs)[1], Head(pairs)[2]), Tail(pairs))

RECURSIVE UpsertAll(_, _, _)
UpsertAll(rows, sid, pairs) ==
  IF pairs = <<>> THEN rows
  ELSE UpsertAll(Upsert(rows, sid, Head(pairs)[1], Head(pairs)[2]), sid, Tail(pairs))

\* the pairs of a fixesByViolation map, in key order
MapPairs(m) ==
  LET ks == SeqOfSet(DOMAIN m) IN [i \in 1 .. Len(ks) |-> <<ks[i], m[ks[i]]>>]

\* ------------------------------------------------------------ the clock
NowMs == now * TickMs

elapsedSeconds(startedAt) == (NowMs - startedAt) \div 1000

remainingBudgetSeconds(startedAt) == totalTimeoutSeconds - elapsedSeconds(startedAt)

\* an agent invocation of run r is in flight, in generateFixes or in a worker
AgentRunning(r) ==
  \/ gen[r].pc \in {"agent", "retry"}
  \/ \E w \in DOMAIN wk[r] : wk[r][w].pc \in {"agent", "retry"}

\* time passes while an agent invocation is in flight
Tick ==
  /\ now < env.ticks
  /\ \E r \in RunIds : AgentRunning(r)
  /\ now' = now + 1
  /\ UNCHANGED <<scanResults, call, ledger, refund, ex, calc, env, scan, violations, fixes, scanPc, scanTodo, gen, wk, streak>>
  /\ UNCHANGED live

\* ------------------------------------------------------- the batch loop
\* Math.max(15, Math.min(opencodeTimeoutSeconds, remainingBudgetSeconds))
batchTimeoutSeconds(opencodeTimeoutSeconds, remaining) ==
  Max(15, Min(opencodeTimeoutSeconds, remaining))

\* OPENCODE_TIMEOUT_SECONDS: unset, or a small value
ConfiguredTimeouts == {DEFAULT_OPENCODE_TIMEOUT_SECONDS, SmallTimeoutSeconds}

\* the head of the loop lets a batch start with any part of the budget left
BatchTimeoutInputs ==
  {<<t, remaining>> : t \in ConfiguredTimeouts, remaining \in 1 .. totalTimeoutSeconds}

BatchTimeoutReturn ==
  /\ call.fn = "batchTimeoutSeconds"
  /\ Return(batchTimeoutSeconds(call.args[1], call.args[2]))
BudgetExhaustedMutant(startedAt) == remainingBudgetSeconds(startedAt) < 0

\* if (remainingBudgetSeconds <= 0)
BudgetExhausted(startedAt) == remainingBudgetSeconds(startedAt) <= 0

BreakerTrippedMutant(consec) == consec > MAX_CONSECUTIVE_EMPTY_BATCHES

\* if (consecutiveEmptyBatches >= MAX_CONSECUTIVE_EMPTY_BATCHES)
BreakerTripped(consec) == consec >= MAX_CONSECUTIVE_EMPTY_BATCHES

\* the head of the for loop: "exit", "budget", "bail" or "run" (a batch of
\* batchesToRun is never empty, so the batch.length === 0 exits are not taken)
LoopVerdict(L, batches, startedAt) ==
  IF L.i > Len(batches) THEN "exit"
  ELSE IF BudgetExhausted(startedAt) THEN "budget"
  ELSE IF BreakerTripped(L.consec) THEN "bail"
  ELSE "run"

\* the locals after the head of the loop; worker: a runFixWorker loop
LoopHead(L, batches, startedAt, worker) ==
  LET verdict == LoopVerdict(L, batches, startedAt)
  IN CASE verdict = "budget" ->
            [L EXCEPT !.warning = "budget",
                      !.diags = Append(@, IF worker THEN "wbudget" ELSE "budget")]
       [] verdict = "bail" ->
            [L EXCEPT !.warning = IF worker THEN "wbail" ELSE "bail",
                      !.diags = Append(@, IF worker THEN "wbail" ELSE "bail")]
       [] verdict = "run" ->
            [L EXCEPT !.attempted = @ + 1,
                      !.processed = @ + Len(batches[L.i]),
                      !.startMs = NowMs]
       [] OTHER -> L

\* A fix of the agent: the tokens of its violationId, its filePath and a code
\* that tells the fixes of one batch apart.
Fix(tokens, filePath, code) ==
  [violationId |-> tokens, filePath |-> filePath, code |-> code]

\* what runOpencodeFixBatch may return for a batch: its fixes, and whether it
\* carries a diagnostic (of the full 240 characters)
BatchOutcomes(batchIds, snap) ==
  LET own == batchIds[1]
      others == {v.id : v \in snap} \ {own}
      foreign == ForeignViolation.id
  IN {[fixes |-> <<>>, diag |-> FALSE],
      [fixes |-> <<>>, diag |-> TRUE],
      [fixes |-> <<Fix(<<own>>, "a.tsx", 1)>>, diag |-> FALSE]}
     \cup (IF env.rich
           THEN {[fixes |-> <<Fix(<<own>>, "a.tsx", 1), Fix(<<own>>, "b.tsx", 2)>>,
                  diag |-> FALSE],
                 [fixes |-> <<Fix(<<own, foreign>>, "a.tsx", 4)>>, diag |-> FALSE],
                 [fixes |-> <<Fix(<<foreign>>, "a.tsx", 5)>>, diag |-> FALSE],
                 [fixes |-> <<Fix(<<own>>, "", 1)>>, diag |-> FALSE]}
                \cup {[fixes |-> <<Fix(<<o>>, "a.tsx", 3)>>, diag |-> FALSE] :
                        o \in {x \in others : \A y \in others : x <= y}}
           ELSE {})

\* what the retry with the extraction-only prompt may add: nothing, or a fix
\* that names no violation
RetryOutcomes == {<<>>, <<Fix(<<>>, "a.tsx", 1)>>}

\* the locals after a batch returned batchFixes
LoopBody(L, batchIds, snap, batchFixes, diag, worker) ==
  LET batchDurationMs == NowMs - L.startMs
      empty == Len(batchFixes) = 0
      d1 == IF diag THEN Append(L.diags, IF worker THEN "wagent" ELSE "agent")
            ELSE L.diags
      d2 == IF empty /\ batchDurationMs < MIN_BATCH_DURATION_MS
            THEN Append(d1, IF worker THEN "winstant" ELSE "instant")
            ELSE d1
  IN [L EXCEPT !.diags = d2,
               !.consec = IF empty THEN @ + 1 ELSE 0,
               !.fixes = SetAll(@, StoredPairs(batchFixes, batchIds, snap)),
               !.agentDiag = FALSE,
               !.i = @ + 1]

\* the observer's count of zero-fix batches returned in a row over the whole
\* run, in the order they returned; it stays at the limit once there
StreakAfter(n, batchFixes) ==
  IF n >= MAX_CONSECUTIVE_EMPTY_BATCHES THEN n
  ELSE IF Len(batchFixes) = 0 THEN n + 1 ELSE 0

\* --------------------------------------------- runOpencodeFixBatch's fixes
\* A fix as the agent's run yields it: the fields of Fix, and whether
\* applySnippetFix finds its originalCode in the file it names.
AgentFix(tokens, filePath, code, patchable) ==
  [violationId |-> tokens, filePath |-> filePath, code |-> code,
   patchable |-> patchable]

\* the fix kinds parseFixesJson can read from the agent's JSON: with or
\* without a violationId, matching the file or not
JsonFixKinds == {<<tokens, patchable>> : tokens \in {<<>>, <<1>>}, patchable \in BOOLEAN}

RECURSIVE JsonOutputs(_)
\* the fix lists of n entries; the code of a fix is its position
JsonOutputs(n) ==
  IF n = 0 THEN {<<>>}
  ELSE {Append(fs, AgentFix(kind[1], "a.tsx", n, kind[2])) :
          fs \in JsonOutputs(n - 1), kind \in JsonFixKinds}

\* What one run of the agent leaves behind: the fixes read from its output
\* (json), the files of a patch it printed with whether each still applies
\* (printed), the number of files it changed in the workspace (dirty), the
\* number of files git diff reports (gitDiff), whether it printed more than 50
\* characters (long), and the fixes the extraction-only prompt yields (retry).
AgentRuns ==
  {[json |-> json, printed |-> printed, dirty |-> dirty, gitDiff |-> gitDiff,
    long |-> long, retry |-> retry] :
     json \in UNION {JsonOutputs(n) : n \in 0 .. MaxExtracted},
     printed \in {<<>>, <<TRUE>>, <<FALSE>>},
     dirty \in 0 .. MaxDirtyFiles,
     gitDiff \in 0 .. 1,
     long \in BOOLEAN,
     retry \in {<<>>, <<AgentFix(<<>>, "a.tsx", 41, FALSE)>>}}

\* the batches the agent is run on: one violation, or two
BatchIdLists == {<<1>>, <<1, 2>>}

\* the snapshot rows of a batch
BatchSnapshot(batchIds) == {[id |-> batchIds[k]] : k \in 1 .. Len(batchIds)}

\* violationId: fix.violationId || fallback
OrViolationId(fix, fallback) ==
  IF fix.violationId # <<>> THEN fix ELSE [fix EXCEPT !.violationId = fallback]

assignFallbackViolationIds(fixList, fallbackViolationIds) ==
  IF Len(fixList) = 0 \/ Len(fallbackViolationIds) = 0 THEN fixList
  ELSE IF Len(fixList) = 1
  THEN <<OrViolationId(fixList[1], <<fallbackViolationIds[1]>>)>>
  ELSE [idx \in 1 .. Len(fixList) |->
          OrViolationId(fixList[idx],
            <<fallbackViolationIds[Min(idx, Len(fallbackViolationIds))]>>)]

RECURSIVE ConcatAll(_)
ConcatAll(lists) ==
  IF lists = <<>> THEN <<>> ELSE Head(lists) \o ConcatAll(Tail(lists))

\* the fixes are grouped by file in the order the files first appear; a fix
\* stays when the probe of applySnippetFix applied it
keepPatchableFixes(fixList) ==
  LET named == SelectSeq(fixList, LAMBDA f : normalizeRepoFilePath(f.filePath) # "")
      paths == Dedupe([i \in 1 .. Len(named) |-> named[i].filePath])
      OfFile(path) == SelectSeq(named, LAMBDA f : f.filePath = path /\ f.patchable)
  IN ConcatAll([k \in 1 .. Len(paths) |-> OfFile(paths[k])])

\* extractFixesFromDiff(text, fallbackViolationTag): one fix per file of the
\* patch, each tagged with all the batch's ids
extractFixesFromDiff(applies, fallbackIds, base) ==
  [k \in 1 .. Len(applies) |-> AgentFix(fallbackIds, "a.tsx", base + k, applies[k])]

\* extractAppliedFixesFromWorkspace: one fix per changed file, without an id,
\* then the fallback ids
extractAppliedFixesFromWorkspace(dirty, fallbackViolationIds) ==
  assignFallbackViolationIds(
    [k \in 1 .. dirty |-> AgentFix(<<>>, "a.tsx", 20 + k, TRUE)],
    fallbackViolationIds)

\* the fixes runOpencodeFixBatch returns for this run of the agent
BatchFixes(agent, fallbackViolationIds) ==
  LET fallbackIds == Dedupe(fallbackViolationIds)
      fromStdoutDiff == extractFixesFromDiff(agent.printed, fallbackIds, 10)
      extracted ==
        IF agent.json # <<>> THEN agent.json
        ELSE assignFallbackViolationIds(fromStdoutDiff, fallbackIds)
      workspaceDerivedFixes ==
        extractAppliedFixesFromWorkspace(agent.dirty, fallbackIds)
      kept ==
        IF Len(workspaceDerivedFixes) > 0 THEN workspaceDerivedFixes
        ELSE IF Len(extracted) > 0 THEN keepPatchableFixes(extracted)
        ELSE extracted
      diffFixes ==
        extractFixesFromDiff([k \in 1 .. agent.gitDiff |-> TRUE], fallbackIds, 30)
      retried ==
        IF Len(kept) # 0 THEN kept
        ELSE IF agent.gitDiff > 0
        THEN assignFallbackViolationIds(diffFixes, fallbackIds)
        ELSE IF agent.long /\ Len(agent.retry) > 0 THEN agent.retry
        ELSE kept
      singleViolationId ==
        IF Len(fallbackViolationIds) = 1 THEN <<fallbackViolationIds[1]>> ELSE <<>>
  IN IF singleViolationId # <<>>
     THEN [k \in 1 .. Len(retried) |-> OrViolationId(retried[k], singleViolationId)]
     ELSE retried

\* runOpencodeFixBatch returns
BatchReturn ==
  /\ call.fn = "runOpencodeFixBatch"
  /\ Return(BatchFixes(call.args[1], call.args[2]))

\* the loop over batchResult.fixes: the log takes the rows it upserts
BatchStore ==
  /\ call.fn = "runOpencodeFixBatch"
  /\ call.pc = "returned"
  /\ call' = [call EXCEPT
       !.pc = "stored",
       !.log = StoredPairs(call.result[1], call.args[2],
                           BatchSnapshot(call.args[2]))]
  /\ UNCHANGED <<pipeline, ex, calc>>

\* --------------------------------------------------------- generateFixes
Quiet == scanPc \in {"idle", "done"} /\ \A q \in RunIds : gen[q].pc \in {"idle", "done"}

\* POST /api/fix: generateFixes reads the Scan with its violations and returns
\* at once when there is none
FixTrigger(r) ==
  /\ gen[r].pc = "idle"
  /\ r <= env.runs
  /\ \A q \in RunIds : q < r => gen[q].pc # "idle"
  /\ scan.status # "none"
  /\ env.overlap \/ Quiet
  /\ gen' = [gen EXCEPT ![r] =
       IF ScanViolations(ScanId) = {} THEN GenDone
       ELSE [GenIdle EXCEPT !.pc = "begin", !.snap = ScanViolations(ScanId),
                            !.score = scan.score]]
  /\ UNCHANGED <<scanResults, call, ledger, refund, ex, calc, env, now, scan, violations, fixes, scanPc, scanTodo, wk, streak>>
  /\ RunFinally(r)

\* a transaction that leaves scoreAfter as it is
FixBeginMutant(r) ==
  /\ gen[r].pc = "begin"
  /\ fixes' = DeleteMany(fixes, ScanId)
  /\ scan' = [scan EXCEPT !.status = "fixing", !.errorMessage = NoMsg]
  /\ gen' = [gen EXCEPT ![r].pc = "clone"]
  /\ UNCHANGED <<scanResults, call, ledger, refund, ex, calc, env, now, violations, scanPc, scanTodo, wk, streak>>
  /\ RunFinally(r)

\* the transaction: the Scan's Fix rows are deleted, the Scan is set to fixing
FixBegin(r) ==
  /\ gen[r].pc = "begin"
  /\ fixes' = DeleteMany(fixes, ScanId)
  /\ scan' = [scan EXCEPT !.status = "fixing", !.scoreAfter = -1, !.errorMessage = NoMsg]
  /\ gen' = [gen EXCEPT ![r].pc = "clone"]
  /\ UNCHANGED <<scanResults, call, ledger, refund, ex, calc, env, now, violations, scanPc, scanTodo, wk, streak>>
  /\ RunFinally(r)

\* generateFixes returns: its locals are gone
FixReturn(r) ==
  /\ gen' = [gen EXCEPT ![r] = GenDone]
  /\ wk' = [wk EXCEPT ![r] = <<>>]
  /\ streak' = [streak EXCEPT ![r] = 0]

\* the catch block of generateFixes, then its finally
FixCatch(r, cause) ==
  /\ scan' = [scan EXCEPT !.status = "failed",
                          !.errorMessage = [kind |-> "error",
                                            cause |-> sanitizeDiagnostic(cause)]]
  /\ FixReturn(r)

FixClone(r) ==
  /\ gen[r].pc = "clone"
  /\ \E ok \in BOOLEAN :
       IF ok
       THEN /\ gen' = [gen EXCEPT ![r].pc = "sandbox"]
            /\ UNCHANGED <<scan, wk, streak>>
       ELSE \E text \in CloneErrors : FixCatch(r, text)
  /\ UNCHANGED <<scanResults, call, ledger, refund, ex, calc, env, now, violations, fixes, scanPc, scanTodo>>
  /\ live' = IF gen'[r].pc = "done" THEN Finally(live, RunOwner(r))
             ELSE Created(live, "dir", RunOwner(r))

\* a worker's locals before it starts
WorkerIdle(batches) ==
  [pc |-> "init", batches |-> batches, L |-> LoopIdle, caught |-> FALSE]

\* createSandbox, then the plan: batches, worker groups, fixerStartedAt
FixSandbox(r) ==
  /\ gen[r].pc = "sandbox"
  /\ \/ \E outcome \in SandboxOutcomes \ {"ok"} :
          /\ live' = AfterSandbox(live, RunOwner(r), outcome)
          /\ FixCatch(r, "sandbox")
     \/ LET groups == partitionBatches(batchesToRun(gen[r].snap), configuredWorkers)
            workerCount == IF Len(groups) = 0 THEN 1 ELSE Len(groups)
            planned == PlanDiagnostics(gen[r].snap)
                        \o (IF workerCount > 1 THEN <<"parallel">> ELSE <<>>)
        IN /\ live' = AfterSandbox(live, RunOwner(r), "ok")
           /\ gen' = [gen EXCEPT ![r].pc = IF workerCount <= 1 THEN "auth" ELSE "workers",
                                 ![r].groups = groups,
                                 ![r].startedAt = NowMs,
                                 ![r].L.diags = planned]
           /\ wk' = [wk EXCEPT ![r] =
                       IF workerCount <= 1 THEN <<>>
                       ELSE [w \in 1 .. workerCount |-> WorkerIdle(groups[w])]]
           /\ UNCHANGED <<scan, streak>>
  /\ UNCHANGED <<scanResults, call, ledger, refund, ex, calc, env, now, violations, fixes, scanPc, scanTodo>>

\* the batches of the single-worker loop: workerBatchGroups[0] || []
OwnBatches(r) == IF Len(gen[r].groups) = 0 THEN <<>> ELSE gen[r].groups[1]

\* opencode auth list: the exec throws or reports 0 credentials, or passes
FixAuth(r) ==
  /\ gen[r].pc = "auth"
  /\ \E ok \in BOOLEAN :
       IF ok
       THEN /\ gen' = [gen EXCEPT ![r].pc = "loop"]
            /\ UNCHANGED <<scan, wk, streak>>
       ELSE FixCatch(r, "credentials")
  /\ UNCHANGED <<scanResults, call, ledger, refund, ex, calc, env, now, violations, fixes, scanPc, scanTodo>>
  /\ RunFinally(r)

\* the head of the single-worker loop: the next batch is started and the agent
\* invoked, or the loop is left
FixLoopHead(r) ==
  /\ gen[r].pc = "loop"
  /\ gen' = [gen EXCEPT
       ![r].L = LoopHead(gen[r].L, OwnBatches(r), gen[r].startedAt, FALSE),
       ![r].pc = IF LoopVerdict(gen[r].L, OwnBatches(r), gen[r].startedAt) = "run"
                 THEN "agent" ELSE "apply"]
  /\ UNCHANGED <<scanResults, call, ledger, refund, ex, calc, env, now, scan, violations, fixes, scanPc, scanTodo, wk, streak>>
  /\ RunFinally(r)

\* the end of a batch of the single-worker loop: the fixes are stored, the
\* progress line is written
FixBatchEnd(r, batchFixes, diag) ==
  LET batchIds == OwnBatches(r)[gen[r].L.i]
  IN /\ gen' = [gen EXCEPT
          ![r].L = LoopBody(gen[r].L, batchIds, gen[r].snap, batchFixes, diag, FALSE),
          ![r].pc = "loop"]
     /\ fixes' = UpsertAll(fixes, ScanId, StoredPairs(batchFixes, batchIds, gen[r].snap))
     /\ scan' = [scan EXCEPT !.errorMessage = [kind |-> "progress"]]
     /\ streak' = [streak EXCEPT ![r] = StreakAfter(@, batchFixes)]
     /\ UNCHANGED wk

\* the agent returns: an exec throws, the batch ends, or (no fix, no edit,
\* some output) the retry prompt is issued
FixAgentReturn(r) ==
  /\ gen[r].pc = "agent"
  /\ \/ FixCatch(r, "exec") /\ UNCHANGED fixes
     \/ \E out \in BatchOutcomes(OwnBatches(r)[gen[r].L.i], gen[r].snap) :
          \/ FixBatchEnd(r, out.fixes, out.diag)
          \/ /\ out.fixes = <<>>
             /\ gen' = [gen EXCEPT ![r].pc = "retry", ![r].L.agentDiag = out.diag]
             /\ UNCHANGED <<scan, wk, fixes, streak>>
  /\ UNCHANGED <<scanResults, call, ledger, refund, ex, calc, env, now, violations, scanPc, scanTodo>>
  /\ RunFinally(r)

\* the retry returns: the batch ends with what it gave, if anything
FixRetryReturn(r) ==
  /\ gen[r].pc = "retry"
  /\ \/ FixCatch(r, "exec") /\ UNCHANGED fixes
     \/ \E retryFixes \in RetryOutcomes : FixBatchEnd(r, retryFixes, gen[r].L.agentDiag)
  /\ UNCHANGED <<scanResults, call, ledger, refund, ex, calc, env, now, violations, scanPc, scanTodo>>
  /\ RunFinally(r)

\* ---------------------------------------------------------- runFixWorker
WorkerSet(r, w, rec) == wk' = [wk EXCEPT ![r][w] = rec]

\* a catch block that pushes no diagnostic
WorkerCatchMutant(r, w) ==
  WorkerSet(r, w, [wk[r][w] EXCEPT !.pc = "done", !.caught = TRUE])

\* the catch block of runFixWorker, then its finally and its return
WorkerCatch(r, w) ==
  WorkerSet(r, w, [wk[r][w] EXCEPT !.pc = "done", !.caught = TRUE,
                                   !.L.diags = Append(@, WorkerErrorTag(w))])

\* the worker's own temp dirs, repository copy, sandbox and credentials check
WorkerStart(r, w) ==
  /\ gen[r].pc = "workers"
  /\ w \in DOMAIN wk[r]
  /\ wk[r][w].pc = "init"
  /\ IF Len(wk[r][w].batches) = 0
     THEN WorkerSet(r, w, [wk[r][w] EXCEPT !.pc = "done"]) /\ UNCHANGED live
     ELSE \E outcome \in SandboxOutcomes :
            /\ IF outcome = "ok" THEN WorkerSet(r, w, [wk[r][w] EXCEPT !.pc = "loop"])
               ELSE WorkerCatch(r, w)
            /\ live' = AfterSandbox(IF outcome = "ok"
                                    THEN Created(live, "dir", WorkerOwner(r, w))
                                    ELSE live,
                                    WorkerOwner(r, w), outcome)
  /\ UNCHANGED <<scanResults, call, ledger, refund, ex, calc, env, now, scan, violations, fixes, scanPc, scanTodo, gen, streak>>

\* the head of a worker's loop
WorkerLoopHead(r, w) ==
  /\ gen[r].pc = "workers"
  /\ w \in DOMAIN wk[r]
  /\ wk[r][w].pc = "loop"
  /\ WorkerSet(r, w,
       [wk[r][w] EXCEPT
          !.L = LoopHead(wk[r][w].L, wk[r][w].batches, gen[r].startedAt, TRUE),
          !.pc = IF LoopVerdict(wk[r][w].L, wk[r][w].batches, gen[r].startedAt) = "run"
                 THEN "agent" ELSE "done"])
  /\ UNCHANGED <<scanResults, call, ledger, refund, ex, calc, env, now, scan, violations, fixes, scanPc, scanTodo, gen, streak>>
  /\ WorkerFinally(r, w)

\* the end of a batch of a worker: the fixes are kept in the worker's map
WorkerBatchEnd(r, w, batchFixes, diag) ==
  /\ WorkerSet(r, w,
       [wk[r][w] EXCEPT
          !.L = LoopBody(wk[r][w].L, wk[r][w].batches[wk[r][w].L.i], gen[r].snap,
                         batchFixes, diag, TRUE),
          !.pc = "loop"])
  /\ streak' = [streak EXCEPT ![r] = StreakAfter(@, batchFixes)]

WorkerAgentReturn(r, w) ==
  /\ gen[r].pc = "workers"
  /\ w \in DOMAIN wk[r]
  /\ wk[r][w].pc = "agent"
  /\ \/ WorkerCatch(r, w) /\ UNCHANGED streak
     \/ \E out \in BatchOutcomes(wk[r][w].batches[wk[r][w].L.i], gen[r].snap) :
          \/ WorkerBatchEnd(r, w, out.fixes, out.diag)
          \/ /\ out.fixes = <<>>
             /\ WorkerSet(r, w, [wk[r][w] EXCEPT !.pc = "retry", !.L.agentDiag = out.diag])
             /\ UNCHANGED streak
  /\ UNCHANGED <<scanResults, call, ledger, refund, ex, calc, env, now, scan, violations, fixes, scanPc, scanTodo, gen>>
  /\ WorkerFinally(r, w)

WorkerRetryReturn(r, w) ==
  /\ gen[r].pc = "workers"
  /\ w \in DOMAIN wk[r]
  /\ wk[r][w].pc = "retry"
  /\ \/ WorkerCatch(r, w) /\ UNCHANGED streak
     \/ \E retryFixes \in RetryOutcomes :
          WorkerBatchEnd(r, w, retryFixes, wk[r][w].L.agentDiag)
  /\ UNCHANGED <<scanResults, call, ledger, refund, ex, calc, env, now, scan, violations, fixes, scanPc, scanTodo, gen>>
  /\ WorkerFinally(r, w)

RECURSIVE MergeWorkersMutant(_, _)
\* a merge in which the fix that is in the map first stays
MergeWorkersMutant(L, results) ==
  IF results = <<>> THEN L
  ELSE LET W == Head(results).L
       IN MergeWorkersMutant(
            [L EXCEPT !.attempted = @ + W.attempted,
                      !.processed = @ + W.processed,
                      !.diags = @ \o W.diags,
                      !.warning = IF W.warning # "null" /\ @ = "null" THEN W.warning ELSE @,
                      !.fixes = SetAll(W.fixes, MapPairs(@))],
            Tail(results))

RECURSIVE MergeWorkers(_, _)
\* the loop over workerSettled, in worker order: counts and diagnostics are
\* added up, the first warning is kept, later fixes replace earlier ones.  A
\* worker's fixes are taken in key order: within one worker the keys differ,
\* so their order does not show in the result.
MergeWorkers(L, results) ==
  IF results = <<>> THEN L
  ELSE LET W == Head(results).L
       IN MergeWorkers(
            [L EXCEPT !.attempted = @ + W.attempted,
                      !.processed = @ + W.processed,
                      !.diags = @ \o W.diags,
                      !.warning = IF W.warning # "null" /\ @ = "null" THEN W.warning ELSE @,
                      !.fixes = SetAll(@, MapPairs(W.fixes))],
            Tail(results))

\* Promise.allSettled has settled: the merge and the upserts
FixMerge(r) ==
  /\ gen[r].pc = "workers"
  /\ \A w \in DOMAIN wk[r] : wk[r][w].pc = "done"
  /\ LET L == MergeWorkers(gen[r].L, wk[r])
     IN /\ fixes' = UpsertAll(fixes, ScanId, MapPairs(L.fixes))
        /\ gen' = [gen EXCEPT ![r].L = L, ![r].pc = "apply"]
  /\ wk' = [wk EXCEPT ![r] = <<>>]
  /\ UNCHANGED <<scanResults, call, ledger, refund, ex, calc, env, now, scan, violations, scanPc, scanTodo, streak>>
  /\ RunFinally(r)

\* the progress line of the multi-worker path
ProgressAfterApply(r) ==
  IF Len(gen[r].groups) > 1 THEN [scan EXCEPT !.errorMessage = [kind |-> "progress"]]
  ELSE scan

\* applyFixesToRepoPath on the captured fixes, when there is one: no snippet
\* matched, some did, or a file operation throws
FixApply(r) ==
  /\ gen[r].pc = "apply"
  /\ IF DOMAIN gen[r].L.fixes = {}
     THEN /\ gen' = [gen EXCEPT ![r].pc = "tail"]
          /\ scan' = ProgressAfterApply(r)
          /\ UNCHANGED <<wk, streak>>
     ELSE \/ \E applied \in BOOLEAN :
               /\ gen' = [gen EXCEPT ![r].L.diags = Append(@, "applied"),
                                     ![r].applyWarning = ~applied,
                                     ![r].pc = "tail"]
               /\ scan' = ProgressAfterApply(r)
               /\ UNCHANGED <<wk, streak>>
          \/ FixCatch(r, "write")
  /\ UNCHANGED <<scanResults, call, ledger, refund, ex, calc, env, now, violations, fixes, scanPc, scanTodo>>
  /\ RunFinally(r)

\* ------------------------------------------------ the workers' workspaces
\* The temp dirs and containers of one multi-worker run, followed by name.
\* The record holds the directories that exist under os.tmpdir() (tmp), the
\* containers that run (containers), the orchestrator's base directory and
\* container, and per worker its position, its dirs.base and its sandbox
\* (0 is null; a sandbox is its container id and the directory bound to
\* /workspace).
TmpNames == 1 .. MaxTmpNames
ContainerIds == 1 .. MaxTmpNames

\* a name taken from the clock, whether or not it exists
createTempDirsMutant(existing) == TmpNames

\* fs.mkdtemp: a directory that did not exist is made
createTempDirs(existing) == TmpNames \ existing

\* docker.createContainer: a new container
createContainer(running) == ContainerIds \ running

WorkersStart(workerCount, base, container) ==
  [fn |-> "workers", args |-> <<workerCount>>, pc |-> "called", result |-> <<>>,
   log |-> <<>>, tmp |-> {base}, containers |-> {container},
   base |-> base, baseContainer |-> container,
   wr |-> [w \in 1 .. workerCount |->
             [pc |-> "init", dirs |-> 0, container |-> 0, workspace |-> 0]]]

WorkspaceStep(w) ==
  /\ call.fn = "workers"
  /\ w \in DOMAIN call.wr

\* dirs = await createTempDirs()
WorkerTempDirs(w) ==
  /\ WorkspaceStep(w)
  /\ call.wr[w].pc = "init"
  /\ \E name \in createTempDirs(call.tmp) :
       call' = [call EXCEPT !.tmp = @ \cup {name},
                            !.wr[w].dirs = name,
                            !.wr[w].pc = "copy"]
  /\ UNCHANGED <<pipeline, ex, calc>>

\* fs.cp from baseRepoPath into dirs.repoPath, or the clone in its place; a
\* clone that throws goes to the catch
WorkerCopy(w) ==
  /\ WorkspaceStep(w)
  /\ call.wr[w].pc = "copy"
  /\ \E outcome \in {"filled", "threw"} :
       call' = [call EXCEPT !.wr[w].pc = IF outcome = "filled" THEN "sandbox"
                                         ELSE "finally"]
  /\ UNCHANGED <<pipeline, ex, calc>>

\* sandbox = await createSandbox({ repoPath: dirs.repoPath, ... })
WorkerCreateSandbox(w) ==
  /\ WorkspaceStep(w)
  /\ call.wr[w].pc = "sandbox"
  /\ \/ call' = [call EXCEPT !.wr[w].pc = "finally"]
     \/ \E id \in createContainer(call.containers) :
          call' = [call EXCEPT !.containers = @ \cup {id},
                               !.wr[w].container = id,
                               !.wr[w].workspace = call.wr[w].dirs,
                               !.wr[w].pc = "batches"]
  /\ UNCHANGED <<pipeline, ex, calc>>

\* the worker's batches have run in its sandbox
WorkerBatchesDone(w) ==
  /\ WorkspaceStep(w)
  /\ call.wr[w].pc = "batches"
  /\ call' = [call EXCEPT !.wr[w].pc = "finally"]
  /\ UNCHANGED <<pipeline, ex, calc>>

\* finally: destroySandbox(sandbox), cleanupTempDirs(dirs.base)
WorkerTeardown(w) ==
  /\ WorkspaceStep(w)
  /\ call.wr[w].pc = "finally"
  /\ call' = [call EXCEPT
       !.containers = @ \ {call.wr[w].container},
       !.tmp = @ \ {call.wr[w].dirs},
       !.wr[w] = [pc |-> "done", dirs |-> 0, container |-> 0, workspace |-> 0]]
  /\ UNCHANGED <<pipeline, ex, calc>>

\* ------------------------------------------------- the end of generateFixes
\* errorMessage of a run that captured no fix
NoFixMessage(diags) ==
  [kind |-> "nofix", extra |-> SliceText(JoinDiagnostics(diags), DiagnosticCap)]

\* [fixerWarning, applyWarning, postFixWarning].filter(Boolean).join(" ") || null
FinalMessage(fixerWarning, applyWarning, postFixWarning) ==
  LET parts == (IF fixerWarning # "null" THEN <<fixerWarning>> ELSE <<>>)
               \o (IF applyWarning THEN <<"unpatched">> ELSE <<>>)
               \o (IF postFixWarning THEN <<"inferred">> ELSE <<>>)
  IN IF parts = <<>> THEN NoMsg ELSE [kind |-> "warnings", parts |-> parts]

RECURSIVE PostFixImpacts(_)
\* the impacts a post-fix result is scored on: Math.max(1, nodes) per rule
PostFixImpacts(results) ==
  IF results = <<>> THEN <<>>
  ELSE [k \in 1 .. Max(1, Head(results).nodes) |-> Head(results).impact]
       \o PostFixImpacts(Tail(results))

\* scan.score alone, without the fallback to the violations
scoreBeforeMutant(r) == gen[r].score

\* scan.score ?? calculateAccessibilityScore(scan.violations)
scoreBefore(r) ==
  IF gen[r].score # -1 THEN gen[r].score
  ELSE calculateAccessibilityScore(ImpactsOf(gen[r].snap))

\* the score inferred when the re-scan fails: the violations without a Fix row
InferredScore(r) ==
  LET allFixes == {f \in fixes : f.scanId = ScanId}
      remainingViolations ==
        {v \in gen[r].snap : ~\E f \in allFixes : f.violationId = v.id}
  IN calculateAccessibilityScore(ImpactsOf(remainingViolations))

\* no fix captured: complete with the score before; else the git diff (its
\* exec may throw: "exec"), runPostFixScan (its exec may throw: "rescan"; it
\* returns a result, or ok: false) and the final write
FixTail(r) ==
  /\ gen[r].pc = "tail"
  /\ IF DOMAIN gen[r].L.fixes = {}
     THEN /\ scan' = [scan EXCEPT !.status = "complete",
                                  !.scoreAfter = scoreBefore(r),
                                  !.errorMessage = NoFixMessage(gen[r].L.diags)]
          /\ FixReturn(r)
     ELSE \/ \E cause \in {"exec", "rescan"} : FixCatch(r, cause)
          \/ \E n \in {0, Cardinality(gen[r].snap)} :
               /\ scan' = [scan EXCEPT
                    !.status = "complete",
                    !.scoreAfter = calculateAccessibilityScore(PostFixImpacts(AxeResult(n))),
                    !.errorMessage = FinalMessage(gen[r].L.warning, gen[r].applyWarning, FALSE)]
               /\ FixReturn(r)
          \/ /\ scan' = [scan EXCEPT
                  !.status = "complete",
                  !.scoreAfter = InferredScore(r),
                  !.errorMessage = FinalMessage(gen[r].L.warning, gen[r].applyWarning, TRUE)]
             /\ FixReturn(r)
  /\ UNCHANGED <<scanResults, call, ledger, refund, ex, calc, env, now, violations, fixes, scanPc, scanTodo>>
  /\ RunFinally(r)

\* ------------------------------------------------------- refund-escrow
\* the checks of the refund route without the one on the time
RefundRefusalMutant(row, nowMs) ==
  CASE row.status # "failed" -> "not-failed"
    [] row.escrowOwner = "null" \/ row.escrowOfferSequence = -1 -> "no-escrow"
    [] row.escrowRefundedAt # -1 -> "already"
    [] OTHER -> "none"

\* the checks of the refund route on the Scan it has read, in their order:
\* the error it returns, or "none"
RefundRefusal(row, nowMs) ==
  CASE row.status # "failed" -> "not-failed"
    [] row.escrowOwner = "null" \/ row.escrowOfferSequence = -1 -> "no-escrow"
    [] row.escrowRefundedAt # -1 -> "already"
    [] row.escrowCancelAfter # -1 /\ nowMs < row.escrowCancelAfter -> "early"
    [] OTHER -> "none"

\* the request: the Scan is read and checked; an error is returned at once,
\* or cancelEscrow is called
RefundRequest ==
  /\ refund.pc = "idle"
  /\ refund.requests < RefundRequests
  /\ scan.status # "none"
  /\ LET refusal == RefundRefusal(scan, NowMs)
     IN refund' = [refund EXCEPT
          !.pc = IF refusal = "none" THEN "cancel" ELSE "idle",
          !.requests = @ + 1,
          !.response = IF refusal = "none" THEN "none" ELSE refusal,
          !.read = <<scan>>,
          !.readAt = NowMs]
  /\ UNCHANGED <<scanResults, call, ledger, ex, calc, env, now, scan, violations, fixes, scanPc, scanTodo,
                 gen, wk, streak, live>>

\* EscrowCancel on the ledger: tesSUCCESS for an escrow that is locked and
\* past its CancelAfter, unless the submission itself fails
CancelOutcomes(l) ==
  IF l.escrow = "locked" /\ NowMs >= l.cancelAfter THEN {"tesSUCCESS", "threw"}
  ELSE {"threw"}

\* cancelEscrow has settled: escrowRefundedAt is written, or the catch
\* block answers 502
RefundCancel ==
  /\ refund.pc = "cancel"
  /\ \E outcome \in CancelOutcomes(ledger) :
       IF outcome = "tesSUCCESS"
       THEN /\ ledger' = [ledger EXCEPT !.escrow = "cancelled", !.cancels = @ + 1]
            /\ scan' = [scan EXCEPT !.escrowRefundedAt = NowMs]
            /\ refund' = [refund EXCEPT !.pc = "idle", !.response = "success"]
       ELSE /\ ledger' = [ledger EXCEPT !.cancels = @ + 1]
            /\ refund' = [refund EXCEPT !.pc = "idle", !.response = "502"]
            /\ UNCHANGED scan
  /\ UNCHANGED <<scanResults, call, ex, calc, env, now, violations, fixes, scanPc, scanTodo, gen, wk,
                 streak, live>>

\* time passes between the requests of the user
Wait ==
  /\ now < MaxWaits * WaitTicks
  /\ now' = now + WaitTicks
  /\ UNCHANGED <<scanResults, call, ledger, refund, ex, calc, env, scan, violations, fixes, scanPc, scanTodo,
                 gen, wk, streak, live>>

\* ------------------------------------------------------- POST /api/payment
\* The escrow actions of the payment route for one user, one scan and one
\* payment type, followed on their own.  The record holds the Payment rows
\* (each with its status and the ledger sequence of its escrow), the escrows
\* on the ledger in the order they were created, and the requests in flight.
PaymentRequests == 1 .. MaxPaymentRequests

PaymentStart ==
  [fn |-> "payment", args |-> <<>>, pc |-> "called", result |-> <<>>, log |-> <<>>,
   rows |-> <<>>, escrows |-> <<>>,
   req |-> [q \in PaymentRequests |-> [pc |-> "idle", target |-> 0]]]

PaymentStep(q, pc) ==
  /\ call.fn = "payment"
  /\ call.req[q].pc = pc

\* findFirst({ userId, scanId, paymentType, status in [escrowed, confirmed] })
ExistingPayment(rows) ==
  \E k \in 1 .. Len(rows) : rows[k].status \in {"escrowed", "confirmed"}

\* create-escrow, up to the await of createEscrow: a Payment that is escrowed
\* or confirmed is answered with alreadyPaid
CreateEscrowCheck(q) ==
  /\ PaymentStep(q, "idle")
  /\ call' = [call EXCEPT !.req[q].pc =
                IF ExistingPayment(call.rows) THEN "done" ELSE "creating"]
  /\ UNCHANGED <<pipeline, ex, calc>>

\* createEscrow returns and the Payment row is created, or it throws
CreateEscrowRow(q) ==
  /\ PaymentStep(q, "creating")
  /\ \/ call' = [call EXCEPT !.req[q].pc = "done"]
     \/ LET sequence == Len(call.escrows) + 1
        IN call' = [call EXCEPT
             !.escrows = Append(@, "locked"),
             !.rows = Append(@, [status |-> "escrowed", sequence |-> sequence]),
             !.req[q].pc = "done"]
  /\ UNCHANGED <<pipeline, ex, calc>>

\* finish-escrow or cancel-escrow, up to the await of the ledger call: the
\* Payment is read and must be escrowed
SettleEscrowCheck(q, action) ==
  /\ PaymentStep(q, "idle")
  /\ \E k \in 1 .. Len(call.rows) :
       call' = [call EXCEPT
         !.req[q] = IF call.rows[k].status = "escrowed"
                    THEN [pc |-> action, target |-> k]
                    ELSE [pc |-> "done", target |-> 0]]
  /\ UNCHANGED <<pipeline, ex, calc>>

\* finishEscrow / cancelEscrow: the ledger accepts the transaction only for an
\* escrow that is still there, and then the row is updated; else it throws
SettleEscrowRow(q, action) ==
  /\ PaymentStep(q, action)
  /\ LET k == call.req[q].target
         sequence == call.rows[k].sequence
         outcome == IF action = "finishing" THEN "confirmed" ELSE "cancelled"
     IN \/ call' = [call EXCEPT !.req[q] = [pc |-> "done", target |-> 0]]
        \/ /\ call.escrows[sequence] = "locked"
           /\ call' = [call EXCEPT
                !.escrows[sequence] = outcome,
                !.rows[k].status = outcome,
                !.req[q] = [pc |-> "done", target |-> 0]]
  /\ UNCHANGED <<pipeline, ex, calc>>

\* --------------------------------------------- the two scores of one result
\* runScan's score and generateFixes' scoreAfter, each computed from the same
\* result of the rule engine, followed on their own.  A result is a list of
\* rule violations, each with its impact and the number of its nodes.
RuleViolation(impact, nodes) ==
  [id |-> "rule", impact |-> impact, nodes |-> nodes,
   description |-> "rule description", helpUrl |-> "rules/axe/rule",
   tags |-> <<"wcag2a", "wcag111">>]

RuleViolations ==
  {RuleViolation(impact, nodes) :
     impact \in Impacts \ {"unknown"}, nodes \in 0 .. MaxRuleNodes}

EngineResults == UNION {Lists(RuleViolations, n) : n \in 0 .. MaxEngineRules}

\* runScan: one Violation row per node, then the score of the rows
StoredScore(results) ==
  LET rows == FlattenNodes(results)
  IN calculateAccessibilityScore([k \in 1 .. Len(rows) |-> rows[k].impact])

\* runScan stores the score of the result
RescoreScan ==
  /\ call.fn = "rescore"
  /\ call.pc = "called"
  /\ call' = [call EXCEPT !.pc = "scanned", !.score = StoredScore(call.args)]
  /\ UNCHANGED <<pipeline, ex, calc>>

\* generateFixes computes scoreAfter from the post-fix scan of the same result
RescoreAfter ==
  /\ call.fn = "rescore"
  /\ call.pc = "scanned"
  /\ call' = [call EXCEPT
       !.pc = "returned",
       !.scoreAfter = calculateAccessibilityScore(PostFixImpacts(call.args))]
  /\ UNCHANGED <<pipeline, ex, calc>>

\* ------------------------------------------------- applyFixesToRepoPath
\* One call with one fix, followed on its own.  A filePath is the list of its
\* segments, as split at "/" once backslashes are slashes: "/f" is <<"", "f">>,
\* "file:///f" is <<"file:", "", "", "f">>, "" is <<"">>.  The directory tree
\* has the repository at /tmp/repo with the file f in it, and the files /f,
\* /tmp/f and /tmp/repo-old beside it; every file holds the fix's originalCode.
SegmentNames == {"", ".", "..", "file:", "workspace", "tmp", "repo-old", "f"}

FilePaths == UNION {Lists(SegmentNames, n) : n \in 1 .. MaxPathSegments}

RepoRoot == <<"tmp", "repo">>

TreeFiles == {<<"f">>, <<"tmp", "f">>, <<"tmp", "repo-old">>, <<"tmp", "repo", "f">>}

RECURSIVE StripSlashes(_)
\* ^\/+ : the leading slashes go
StripSlashes(segs) ==
  IF Len(segs) > 1 /\ Head(segs) = "" THEN StripSlashes(Tail(segs)) ELSE segs

\* ^name\/+ : a leading segment `name` and the slashes after it go
StripLeading(segs, name) ==
  IF Len(segs) > 1 /\ Head(segs) = name THEN StripSlashes(Tail(segs)) ELSE segs

\* ^file:\/\/ : "file:" and two slashes go
StripFileScheme(segs) ==
  IF Len(segs) > 2 /\ segs[1] = "file:" /\ segs[2] = ""
  THEN SubSeq(segs, 3, Len(segs)) ELSE segs

\* \/{2,} -> "/" : the empty segments in the middle go
CollapseSlashes(segs) ==
  LET keep == {k \in 1 .. Len(segs) : ~(1 < k /\ k < Len(segs) /\ segs[k] = "")}
      order == SeqOfSet(keep)
  IN [i \in 1 .. Len(order) |-> segs[order[i]]]

\* normalizeRepoFilePath on segments; <<"">> is the empty string
normalizeSegments(segs) ==
  IF segs = <<"">> THEN segs
  ELSE CollapseSlashes(
         StripLeading(
           StripLeading(StripSlashes(StripFileScheme(segs)), "workspace"), "."))

RECURSIVE ResolveFrom(_, _)
\* path.resolve's walk: "" and "." stay, ".." goes up, but not above the root
ResolveFrom(dir, segs) ==
  IF segs = <<>> THEN dir
  ELSE LET seg == Head(segs)
           next == IF seg \in {"", "."} THEN dir
                   ELSE IF seg = ".." THEN
                     (IF dir = <<>> THEN dir ELSE SubSeq(dir, 1, Len(dir) - 1))
                   ELSE Append(dir, seg)
       IN ResolveFrom(next, Tail(segs))

\* path.resolve(repoRoot, filePath): an absolute filePath starts at "/"
pathResolve(root, segs) ==
  IF Len(segs) > 1 /\ Head(segs) = ""
  THEN ResolveFrom(<<>>, segs) ELSE ResolveFrom(root, segs)

\* String.startsWith on two names
NameStartsWith(name, prefix) ==
  \/ name = prefix
  \/ <<name, prefix>> \in {<<"repo-old", "repo">>}

\* absolutePath.startsWith(repoRoot), without the separator
IsInsideRepoMutant(absolutePath) ==
  /\ Len(absolutePath) >= Len(RepoRoot)
  /\ \A k \in 1 .. Len(RepoRoot) - 1 : absolutePath[k] = RepoRoot[k]
  /\ NameStartsWith(absolutePath[Len(RepoRoot)], RepoRoot[Len(RepoRoot)])

\* absolutePath === repoRoot || absolutePath.startsWith(repoRoot + path.sep)
IsInsideRepo(absolutePath) ==
  /\ Len(absolutePath) >= Len(RepoRoot)
  /\ \A k \in 1 .. Len(RepoRoot) : absolutePath[k] = RepoRoot[k]

\* the first loop: fixes without a path or without a change are dropped
ApplyGroup ==
  /\ call.fn = "apply"
  /\ call.pc = "called"
  /\ LET filePath == normalizeSegments(call.args.filePath)
     IN call' = [call EXCEPT
          !.pc = "grouped",
          !.fixesByFile = IF filePath = <<"">> \/ ~call.args.changes
                          THEN <<>> ELSE <<filePath>>]
  /\ UNCHANGED <<pipeline, ex, calc>>

\* the second loop: a file outside the repository or one that cannot be read
\* is passed over, the others are patched and written
ApplyWrite ==
  /\ call.fn = "apply"
  /\ call.pc = "grouped"
  /\ LET written ==
           SelectSeq([k \in 1 .. Len(call.fixesByFile) |->
                        pathResolve(RepoRoot, call.fixesByFile[k])],
                     LAMBDA absolutePath :
                       IsInsideRepo(absolutePath) /\ absolutePath \in TreeFiles)
     IN call' = [call EXCEPT
          !.pc = "returned",
          !.log = written,
          !.result = [changedFileCount |-> Len(written),
                      appliedFixCount |-> Len(written)]]
  /\ UNCHANGED <<pipeline, ex, calc>>

\* ---------------------------------------------------------- POST /api/fix
\* The fix route, the first steps of the generateFixes it starts and the PATCH
\* of a Fix's status, followed on their own for several users.  User u owns
\* Scan u; session 0 is no session, scanId 0 a missing scanId, and the scanId
\* above the users' names no Scan.  The record holds each Scan's status,
\* whether it has violations and its Fix rows, the requests in flight, and in
\* log who wrote to which Scan.
Users == 1 .. MaxUsers
OwnedScans == Users
NoScanId == MaxUsers + 1

OwnerOf(scanId) == scanId

FixRouteStart(withViolations) ==
  [fn |-> "fixroute", args |-> <<>>, pc |-> "called", result |-> <<>>, log |-> <<>>,
   scans |-> [id \in OwnedScans |->
                [userId |-> OwnerOf(id), status |-> "complete",
                 violations |-> withViolations[id],
                 fixes |-> IF withViolations[id] THEN {[id |-> 1, status |-> "pending"]}
                           ELSE {}]],
   req |-> [q \in 1 .. MaxFixRequests |-> [pc |-> "idle", user |-> 0, scanId |-> 0]]]

RouteStep(q, pc) ==
  /\ call.fn = "fixroute"
  /\ call.req[q].pc = pc

RouteDone == [pc |-> "done", user |-> 0, scanId |-> 0]

\* POST /api/fix: 401 without a session, 400 without a scanId, else
\* generateFixes is started and the response is sent
FixPost(q, user, scanId) ==
  /\ RouteStep(q, "idle")
  /\ call' = [call EXCEPT !.req[q] =
       IF user = 0 \/ scanId = 0 THEN RouteDone
       ELSE [pc |-> "read", user |-> user, scanId |-> scanId]]
  /\ UNCHANGED <<pipeline, ex, calc>>

\* generateFixes: findUnique({ id: scanId }) with the violations
GenRead(q) ==
  /\ RouteStep(q, "read")
  /\ LET scanId == call.req[q].scanId
     IN call' = [call EXCEPT !.req[q] =
          IF scanId \notin OwnedScans THEN RouteDone
          ELSE IF ~call.scans[scanId].violations THEN RouteDone
          ELSE [@ EXCEPT !.pc = "begin"]]
  /\ UNCHANGED <<pipeline, ex, calc>>

\* generateFixes: the transaction that deletes the Scan's Fix rows and sets
\* the Scan to fixing
GenBegin(q) ==
  /\ RouteStep(q, "begin")
  /\ LET scanId == call.req[q].scanId
     IN call' = [call EXCEPT
          !.scans[scanId].fixes = {},
          !.scans[scanId].status = "fixing",
          !.log = Append(@, [user |-> call.req[q].user, scanId |-> scanId]),
          !.req[q].pc = "fixing"]
  /\ UNCHANGED <<pipeline, ex, calc>>

\* generateFixes: a Fix row is stored and the Scan is complete again
GenStore(q) ==
  /\ RouteStep(q, "fixing")
  /\ LET scanId == call.req[q].scanId
     IN call' = [call EXCEPT
          !.scans[scanId].fixes = {f \in @ : f.id # 1} \cup {[id |-> 1, status |-> "pending"]},
          !.scans[scanId].status = "complete",
          !.log = Append(@, [user |-> call.req[q].user, scanId |-> scanId]),
          !.req[q] = RouteDone]
  /\ UNCHANGED <<pipeline, ex, calc>>

\* PATCH /api/scan/[id], up to findUnique({ id, userId }): 401 without a
\* session, 404 for a Scan that is not the user's
PatchCheck(q, user, scanId) ==
  /\ RouteStep(q, "idle")
  /\ call' = [call EXCEPT !.req[q] =
       IF user = 0 THEN RouteDone
       ELSE IF scanId \notin OwnedScans THEN RouteDone
       ELSE IF call.scans[scanId].userId # user THEN RouteDone
       ELSE [pc |-> "patch", user |-> user, scanId |-> scanId]]
  /\ UNCHANGED <<pipeline, ex, calc>>

\* PATCH: fix.update({ id: fixId, scanId: id }), which throws without the row
PatchUpdate(q, status) ==
  /\ RouteStep(q, "patch")
  /\ LET scanId == call.req[q].scanId
     IN call' = IF \E f \in call.scans[scanId].fixes : f.id = 1
                THEN [call EXCEPT
                        !.scans[scanId].fixes = {[id |-> 1, status |-> status]},
                        !.log = Append(@, [user |-> call.req[q].user, scanId |-> scanId]),
                        !.req[q] = RouteDone]
                ELSE [call EXCEPT !.req[q] = RouteDone]
  /\ UNCHANGED <<pipeline, ex, calc>>

\* ------------------------------------------------------ the specifications
Next ==
  \/ ScanRequest
  \/ ScanCloning
  \/ ScanClone
  \/ ScanSandbox
  \/ ScanScript
  \/ ScanPersistRow
  \/ ScanComplete
  \/ Tick
  \/ \E r \in RunIds : FixTrigger(r)
  \/ \E r \in RunIds : FixBegin(r)
  \/ \E r \in RunIds : FixClone(r)
  \/ \E r \in RunIds : FixSandbox(r)
  \/ \E r \in RunIds : FixAuth(r)
  \/ \E r \in RunIds : FixLoopHead(r)
  \/ \E r \in RunIds : FixAgentReturn(r)
  \/ \E r \in RunIds : FixRetryReturn(r)
  \/ \E r \in RunIds, w \in WorkerIds : WorkerStart(r, w)
  \/ \E r \in RunIds, w \in WorkerIds : WorkerLoopHead(r, w)
  \/ \E r \in RunIds, w \in WorkerIds : WorkerAgentReturn(r, w)
  \/ \E r \in RunIds, w \in WorkerIds : WorkerRetryReturn(r, w)
  \/ \E r \in RunIds : FixMerge(r)
  \/ \E r \in RunIds : FixApply(r)
  \/ \E r \in RunIds : FixTail(r)

Spec == Init /\ [][Next]_vars

\* a step of a run that is under way: runScan and generateFixes are promises
\* the event loop keeps resuming, and their awaited calls settle
RunStep ==
  \/ ScanCloning
  \/ ScanClone
  \/ ScanSandbox
  \/ ScanScript
  \/ ScanPersistRow
  \/ ScanComplete
  \/ \E r \in RunIds : FixBegin(r)
  \/ \E r \in RunIds : FixClone(r)
  \/ \E r \in RunIds : FixSandbox(r)
  \/ \E r \in RunIds : FixAuth(r)
  \/ \E r \in RunIds : FixLoopHead(r)
  \/ \E r \in RunIds : FixAgentReturn(r)
  \/ \E r \in RunIds : FixRetryReturn(r)
  \/ \E r \in RunIds, w \in WorkerIds : WorkerStart(r, w)
  \/ \E r \in RunIds, w \in WorkerIds : WorkerLoopHead(r, w)
  \/ \E r \in RunIds, w \in WorkerIds : WorkerAgentReturn(r, w)
  \/ \E r \in RunIds, w \in WorkerIds : WorkerRetryReturn(r, w)
  \/ \E r \in RunIds : FixMerge(r)
  \/ \E r \in RunIds : FixApply(r)
  \/ \E r \in RunIds : FixTail(r)

\* the environments the fair specification explores: the overlapping client,
\* and a short clock with one or several workers
LiveEnvironments ==
  {[nodes |-> RaceNodes, runs |-> RaceRuns, overlap |-> TRUE, workers |-> 1,
    ticks |-> 0, rich |-> TRUE]}
  \cup {[nodes |-> AgentNodes, runs |-> 1, overlap |-> FALSE, workers |-> w,
          ticks |-> 1, rich |-> FALSE] : w \in 1 .. MaxConfiguredWorkers}

InitLive ==
  /\ env \in LiveEnvironments
  /\ InitPipeline
  /\ ex = ExIdle
  /\ calc = CalcIdle
  /\ call = CallIdle

SpecLive == InitLive /\ [][Next]_vars /\ WF_vars(RunStep)

\* the user who asks for refunds: one worker, a scan of one node, one fix
\* request that may overlap the scan
EscrowEnvironment ==
  [nodes |-> RaceNodes, runs |-> 1, overlap |-> TRUE, workers |-> 1, ticks |-> 0,
   rich |-> FALSE]

InitEscrow ==
  /\ env = EscrowEnvironment
  /\ InitPipeline
  /\ ex = ExIdle
  /\ calc = CalcIdle
  /\ call = CallIdle

\* the scan and the single-worker fix run, with the refund route and a clock
\* that runs between requests
NextEscrow ==
  \/ ScanRequest
  \/ ScanCloning
  \/ ScanClone
  \/ ScanSandbox
  \/ ScanScript
  \/ ScanPersistRow
  \/ ScanComplete
  \/ \E r \in RunIds : FixTrigger(r)
  \/ \E r \in RunIds : FixBegin(r)
  \/ \E r \in RunIds : FixClone(r)
  \/ \E r \in RunIds : FixSandbox(r)
  \/ \E r \in RunIds : FixAuth(r)
  \/ \E r \in RunIds : FixLoopHead(r)
  \/ \E r \in RunIds : FixAgentReturn(r)
  \/ \E r \in RunIds : FixRetryReturn(r)
  \/ \E r \in RunIds : FixApply(r)
  \/ \E r \in RunIds : FixTail(r)
  \/ RefundRequest
  \/ RefundCancel
  \/ Wait

SpecEscrow == InitEscrow /\ [][NextEscrow]_vars

\* no request arrives: the pipeline stays as it was made
IdleEnvironment ==
  [nodes |-> 0, runs |-> 0, overlap |-> FALSE, workers |-> 1, ticks |-> 0, rich |-> FALSE]

\* one call of execInSandbox, on its own
InitExec ==
  /\ env = IdleEnvironment
  /\ InitPipeline
  /\ ex = ExIdle
  /\ calc = CalcIdle
  /\ call = CallIdle

SpecExec == InitExec /\ [][NextExec]_vars

\* one call of calculateAccessibilityScore, on each list of CalcInputs
InitScore ==
  /\ env = IdleEnvironment
  /\ InitPipeline
  /\ ex = ExIdle
  /\ calc \in {[pc |-> "called", violations |-> v, score |-> -1] : v \in CalcInputs}
  /\ call = CallIdle

SpecScore == InitScore /\ [][NextScore]_vars

\* the pipeline at rest, for the calls of helpers followed on their own
InitHelper ==
  /\ env = IdleEnvironment
  /\ InitPipeline
  /\ ex = ExIdle
  /\ calc = CalcIdle

\* one computation of batchTimeoutSeconds at the start of a batch
InitBatchTimeout ==
  /\ InitHelper
  /\ call \in {Called("batchTimeoutSeconds", a) : a \in BatchTimeoutInputs}

NextBatchTimeout == BatchTimeoutReturn

SpecBatchTimeout == InitBatchTimeout /\ [][NextBatchTimeout]_vars

\* one call of partitionBatches by generateFixes
InitPartition ==
  /\ InitHelper
  /\ call \in {Called("partitionBatches", a) : a \in PartitionInputs}

NextPartition == PartitionReturn

SpecPartition == InitPartition /\ [][NextPartition]_vars

\* the plan of one run and the loops over it
InitPlan ==
  /\ InitHelper
  /\ call \in {Called("plan", <<snap, raw>>) :
                 snap \in PlanSnapshots, raw \in 1 .. MaxConfiguredWorkers}

NextPlan ==
  \/ PlanReturn
  \/ \E w \in WorkerIds : InvokeBatch(w)

SpecPlan == InitPlan /\ [][NextPlan]_vars

\* one batch: the agent's run, the fixes returned and the rows stored
InitBatch ==
  /\ InitHelper
  /\ call \in {Called("runOpencodeFixBatch", <<agent, batchIds>>) :
                 agent \in AgentRuns, batchIds \in BatchIdLists}

NextBatch ==
  \/ BatchReturn
  \/ BatchStore

SpecBatch == InitBatch /\ [][NextBatch]_vars

\* one run of the scan script and runScan's handling of its outcome
InitScript ==
  /\ InitHelper
  /\ call \in {ScriptStart(repo) : repo \in Repositories}

NextScript ==
  \/ ScriptDevServer
  \/ ScriptConnect
  \/ ScriptStaticCandidate
  \/ ScriptNoApp
  \/ ScriptScreenshot
  \/ ScriptAnalyze
  \/ ScanExecThrows
  \/ ScanAfterScript

SpecScript == InitScript /\ [][NextScript]_vars

\* the workspaces of one multi-worker run
InitWorkers ==
  /\ InitHelper
  /\ call \in {WorkersStart(n, base, container) :
                 n \in 2 .. MaxWorkspaceWorkers,
                 base \in TmpNames, container \in ContainerIds}

NextWorkers ==
  \E w \in 1 .. MaxWorkspaceWorkers :
    \/ WorkerTempDirs(w)
    \/ WorkerCopy(w)
    \/ WorkerCreateSandbox(w)
    \/ WorkerBatchesDone(w)
    \/ WorkerTeardown(w)

SpecWorkers == InitWorkers /\ [][NextWorkers]_vars

\* the escrow actions of the payment route
InitPayment ==
  /\ InitHelper
  /\ call = PaymentStart

NextPayment ==
  \E q \in PaymentRequests :
    \/ CreateEscrowCheck(q)
    \/ CreateEscrowRow(q)
    \/ \E action \in {"finishing", "cancelling"} :
         \/ SettleEscrowCheck(q, action)
         \/ SettleEscrowRow(q, action)

SpecPayment == InitPayment /\ [][NextPayment]_vars

\* the two scores of one result of the rule engine
InitRescore ==
  /\ InitHelper
  /\ call \in {[fn |-> "rescore", args |-> results, pc |-> "called",
                result |-> <<>>, log |-> <<>>, score |-> -1, scoreAfter |-> -1] :
               results \in EngineResults}

NextRescore == RescoreScan \/ RescoreAfter

SpecRescore == InitRescore /\ [][NextRescore]_vars

\* applyFixesToRepoPath on one fix
InitApply ==
  /\ InitHelper
  /\ call \in {[fn |-> "apply", args |-> [filePath |-> filePath, changes |-> changes],
                pc |-> "called", result |-> <<>>, log |-> <<>>, fixesByFile |-> <<>>] :
               filePath \in FilePaths, changes \in BOOLEAN}

NextApply == ApplyGroup \/ ApplyWrite

SpecApply == InitApply /\ [][NextApply]_vars

\* the fix route for several users
InitFixRoute ==
  /\ InitHelper
  /\ call \in {FixRouteStart(withViolations) :
                 withViolations \in [OwnedScans -> BOOLEAN]}

NextFixRoute ==
  \E q \in 1 .. MaxFixRequests :
    \/ \E user \in {0} \cup Users, scanId \in {0, NoScanId} \cup OwnedScans :
         \/ FixPost(q, user, scanId)
         \/ PatchCheck(q, user, scanId)
    \/ GenRead(q)
    \/ GenBegin(q)
    \/ GenStore(q)
    \/ \E status \in {"accepted", "rejected", "pending"} : PatchUpdate(q, status)

SpecFixRoute == InitFixRoute /\ [][NextFixRoute]_vars

\* ---------------------------------------------------------------- claims
Terminal == {"complete", "failed"}

\* generateFixes run r returns in this step
FixReturns(r) == gen[r].pc \notin {"idle", "done"} /\ gen'[r].pc = "done"

\* the writes of runScan, each over the status the lifecycle gives it
RunScanWrites ==
  /\ (scanPc = "start" /\ scanPc' = "clone")
       => scan.status = "pending" /\ scan'.status = "cloning"
  /\ (scanPc = "clone" /\ scanPc' = "sandbox")
       => scan.status = "cloning" /\ scan'.status = "scanning"
  /\ (scanPc = "persist" /\ scanPc' = "done")
       => scan.status = "scanning" /\ scan'.status = "complete"
  /\ (scanPc \in {"clone", "sandbox", "script"} /\ scanPc' = "done")
       => scan.status \in {"cloning", "scanning"} /\ scan'.status = "failed"

\* C1: during runScan the status only moves pending -> cloning -> scanning ->
\* (complete | failed): cloning is written only over pending, scanning only
\* over cloning, complete only over scanning, failed only over cloning or
\* scanning.
C1_RunScanPath == [][RunScanWrites]_vars

FixingEdges ==
  /\ \A r \in RunIds :
       (gen[r].pc = "begin" /\ gen'[r].pc = "clone") => scan.status = "complete"
  /\ (scan.status = "fixing" /\ scan'.status # "fixing") => scan'.status \in Terminal

\* C2: a Scan enters fixing only from complete (never from pending, cloning,
\* scanning, failed, or while already fixing), and a Scan in fixing next
\* becomes only complete or failed.
C2_FixingLifecycle == [][FixingEdges]_vars

\* a run that returns leaves the Scan complete or failed
RunEndsTerminal ==
  /\ (scanPc # "done" /\ scanPc' = "done") => scan'.status \in Terminal
  /\ \A r \in RunIds : FixReturns(r) => scan'.status \in Terminal

RowsOf(rows) == {<<f.violationId, f.code>> : f \in {g \in rows : g.scanId = ScanId}}

\* the fixes run r has produced
Produced(r) == {<<k, gen[r].L.fixes[k]>> : k \in DOMAIN gen[r].L.fixes}

\* C4: when generateFixes finishes, the Fix rows of the Scan are exactly the
\* fixes that run produced; no row of another run is among them.
C4_FullReplace == [][\A r \in RunIds : FixReturns(r) => RowsOf(fixes') = Produced(r)]_vars

\* C5: in every reachable state there is at most one Fix row per violation id.
C5_OneFixPerViolation ==
  \A f \in fixes : \A g \in fixes : f.violationId = g.violationId => f = g

\* the agent gave two fixes for one violation in one batch: the second one
\* has replaced the first in its row
C5_Witness == \E f \in fixes : f.code = 2

\* C6: every Fix row references a Violation that belongs to the same Scan as
\* the row; a fix naming a violation of another Scan is never stored.
C6_FixOfOwnViolation ==
  \A f \in fixes : \E v \in violations : v.id = f.violationId /\ v.scanId = f.scanId

\* a fix that named a violation of the Scan and one of another Scan was stored,
\* for the Scan's own violation
C6_Witness == \E f \in fixes : f.code = 4

\* the loop of generateFixes, or of worker w, starts a batch in this step
StartsBatch(r) == gen[r].pc = "loop" /\ gen'[r].pc = "agent"
WorkerStartsBatch(r, w) ==
  /\ w \in DOMAIN wk[r] /\ w \in DOMAIN wk'[r]
  /\ wk[r][w].pc = "loop" /\ wk'[r][w].pc = "agent"

\* an opencode run is issued in this step: the batch's first one or its retry
InvokesAgent(r) ==
  \/ StartsBatch(r)
  \/ gen[r].pc = "agent" /\ gen'[r].pc = "retry"
WorkerInvokesAgent(r, w) ==
  \/ WorkerStartsBatch(r, w)
  \/ /\ w \in DOMAIN wk[r] /\ w \in DOMAIN wk'[r]
     /\ wk[r][w].pc = "agent" /\ wk'[r][w].pc = "retry"

\* C7 as stated: no agent invocation is issued once the remaining total budget
\* is <= 0, in the single-worker loop or in any worker.
C7_NoInvocationPastBudget ==
  [][\A r \in RunIds :
       (InvokesAgent(r) \/ \E w \in WorkerIds : WorkerInvokesAgent(r, w))
         => remainingBudgetSeconds(gen[r].startedAt) > 0]_vars

\* C7 as amended: no batch is started once the remaining total budget is
\* <= 0, in the single-worker loop or in any worker.
C7_NoBatchPastBudget ==
  [][\A r \in RunIds :
       (StartsBatch(r) \/ \E w \in WorkerIds : WorkerStartsBatch(r, w))
         => remainingBudgetSeconds(gen[r].startedAt) > 0]_vars

\* the loop was left on the budget with a batch still to run
C7_Witness ==
  \E r \in RunIds :
    /\ gen[r].pc = "apply"
    /\ gen[r].L.warning = "budget"
    /\ gen[r].L.i <= Len(OwnBatches(r))
    /\ remainingBudgetSeconds(gen[r].startedAt) <= 0

\* whether a stored errorMessage mentions the budget
MentionsBudget(msg) ==
  CASE msg.kind = "warnings" -> \E k \in 1 .. Len(msg.parts) : msg.parts[k] = "budget"
    [] msg.kind = "nofix" -> Mentions(msg.extra, {"budget", "wbudget"})
    [] OTHER -> FALSE

\* run r has stopped launching batches because the budget was exhausted
StoppedOnBudget(r) ==
  \E k \in 1 .. Len(gen[r].L.diags) : gen[r].L.diags[k] \in {"budget", "wbudget"}

\* C8: whenever a fixing run stops launching batches because the budget is
\* exhausted, the errorMessage stored with complete mentions the budget, with
\* fixes captured and with none.
C8_BudgetMentioned ==
  [][\A r \in RunIds :
       (FixReturns(r) /\ gen[r].pc = "tail" /\ scan'.status = "complete"
          /\ StoppedOnBudget(r))
         => MentionsBudget(scan'.errorMessage)]_vars

\* C9 as stated: once 3 consecutive batches of a run have returned zero fixes,
\* no further agent invocation is issued in that run, whatever the worker
\* count.
C9_RunBreaker ==
  [][\A r \in RunIds :
       streak[r] >= MAX_CONSECUTIVE_EMPTY_BATCHES
         => ~(InvokesAgent(r) \/ \E w \in WorkerIds : WorkerInvokesAgent(r, w))]_vars

\* C9 as amended: once 3 consecutive batches of one loop (the single-worker
\* loop, or one worker's) have returned zero fixes, that loop issues no
\* further agent invocation.
C9_LoopBreaker ==
  [][\A r \in RunIds :
       /\ gen[r].L.consec >= MAX_CONSECUTIVE_EMPTY_BATCHES => ~InvokesAgent(r)
       /\ \A w \in WorkerIds :
            (w \in DOMAIN wk[r] /\ wk[r][w].L.consec >= MAX_CONSECUTIVE_EMPTY_BATCHES)
              => ~WorkerInvokesAgent(r, w)]_vars

\* the single-worker loop was left on the breaker with a batch still to run
C9_Witness ==
  \E r \in RunIds :
    /\ gen[r].pc = "apply"
    /\ gen[r].L.warning = "bail"
    /\ gen[r].L.i <= Len(OwnBatches(r))

\* C10: whenever a run ends after 3 consecutive batches returned zero fixes,
\* its diagnostics contain an entry citing the 3 consecutive empty batches,
\* also when those were the only batches of the run.
C10_BailRecorded ==
  \A r \in RunIds :
    /\ (gen[r].pc \in {"apply", "tail"}
          /\ gen[r].L.consec >= MAX_CONSECUTIVE_EMPTY_BATCHES)
         => \E k \in 1 .. Len(gen[r].L.diags) : gen[r].L.diags[k] = "bail"
    /\ \A w \in DOMAIN wk[r] :
         (wk[r][w].pc = "done" /\ wk[r][w].L.consec >= MAX_CONSECUTIVE_EMPTY_BATCHES)
           => \E k \in 1 .. Len(wk[r][w].L.diags) : wk[r][w].L.diags[k] = "wbail"

\* the score of the Scan as run r read it at its start: the stored score, or
\* the one its violations give when none is stored
BeforeScore(r) ==
  IF gen[r].score >= 0 THEN gen[r].score
  ELSE calculateAccessibilityScore(ImpactsOf(gen[r].snap))

\* C11: a fixing run that comes to its end with zero fixes, over all batches
\* and workers, leaves the Scan complete (not failed) with a non-null
\* explanatory errorMessage and scoreAfter equal to the before-score; the
\* outcome of a post-fix re-scan is never written.
C11_NoFixCompletes ==
  [][\A r \in RunIds :
       (FixReturns(r) /\ gen[r].pc \in {"apply", "tail"} /\ DOMAIN gen[r].L.fixes = {})
         => /\ scan'.status = "complete"
            /\ scan'.errorMessage # NoMsg
            /\ scan'.errorMessage.kind = "nofix"
            /\ scan'.scoreAfter = BeforeScore(r)]_vars

\* a multi-worker run ended with no fix: complete, the explanation stored,
\* scoreAfter the stored score
C11_Witness ==
  /\ scan.status = "complete"
  /\ scan.errorMessage.kind = "nofix"
  /\ scan.score >= 0
  /\ scan.scoreAfter = scan.score
  /\ env.workers > 1
  /\ \E r \in RunIds : gen[r].pc = "done"

\* the merge of the workers' results, in this step
Merges(r) == gen[r].pc = "workers" /\ gen'[r].pc = "apply"

\* C12: in a multi-worker run in which a worker fails with an error, the fixes
\* of the other workers are still stored as Fix rows, the Scan does not become
\* failed because of that worker, and the run's diagnostics contain an entry
\* naming the failed worker.
C12_WorkerFailureContained ==
  [][\A r \in RunIds : \A w \in DOMAIN wk[r] :
       /\ (w \in DOMAIN wk'[r] /\ ~wk[r][w].caught /\ wk'[r][w].caught)
            => scan' = scan
       /\ (Merges(r) /\ wk[r][w].caught)
            => /\ scan'.status = scan.status
               /\ \E k \in 1 .. Len(gen'[r].L.diags) :
                    gen'[r].L.diags[k] = WorkerErrorTag(w)
               /\ \A v \in DOMAIN wk[r] \ {w} : \A id \in DOMAIN wk[r][v].L.fixes :
                    \E f \in fixes' : f.scanId = ScanId /\ f.violationId = id]_vars

\* worker 1 failed with an error; the fix of another worker is stored and the
\* run goes on
C12_Witness ==
  \E r \in RunIds :
    /\ gen[r].pc = "apply"
    /\ scan.status = "fixing"
    /\ \E k \in 1 .. Len(gen[r].L.diags) : gen[r].L.diags[k] = WorkerErrorTag(1)
    /\ DOMAIN gen[r].L.fixes # {}
    /\ \A id \in DOMAIN gen[r].L.fixes :
         \E f \in fixes : f.scanId = ScanId /\ f.violationId = id

RECURSIVE WholeStdout(_, _)
\* the stdout payloads of the frames that lie wholly within the first n bytes
\* of the stream
WholeStdout(frames, n) ==
  IF frames = <<>> THEN <<>>
  ELSE LET size == 8 + Len(Head(frames).payload)
       IN IF size > n THEN <<>>
          ELSE (IF Head(frames).streamType = 1 THEN Head(frames).payload ELSE <<>>)
               \o WholeStdout(Tail(frames), n - size)

\* the timer fires while the call is unsettled: resolved with -1 and the
\* stdout received so far
TimeoutResolves ==
  (ex.timer = "armed" /\ ex'.timer = "fired")
    => /\ ex'.promise = "resolved"
       /\ ex'.result = [stdout |-> WholeStdout(ex.frames, ex.sent), exitCode |-> -1]

\* after the timer has fired nothing settles the call again
SettledOnce ==
  ex.timer = "fired"
    => /\ ex'.promise = ex.promise
       /\ ex'.result = ex.result
       /\ ex'.calls = ex.calls

\* C13: when the timeout fires before the stream ends, execInSandbox resolves
\* with exitCode -1 and the stdout buffered so far; the timeout never makes it
\* reject; a later end or error of the stream does not settle the call a
\* second time.
C13_TimeoutResolvesOnce == [][TimeoutResolves /\ SettledOnce]_vars

\* the timeout fired with a whole stdout frame and a cut one received; the
\* stream then ended and errored
C13_Witness ==
  /\ ex.timer = "fired"
  /\ ex.ended /\ ex.errored
  /\ ex.result.stdout # <<>>
  /\ ex.pendingBuf # <<>>
  /\ ex.promise = "resolved"
  /\ ex.calls = 1

\* C14: every execInSandbox call settles once its timeout has elapsed,
\* whatever the container does: one step of the clock after the timeout, the
\* promise is resolved or rejected.
C14_SettledAfterTimeout ==
  (ex.pc = "attached" /\ ex.waited >= ex.timeoutMs + ExecTickMs)
    => ex.promise # "pending"

\* the resources that owner made and that still exist
LiveOf(owner) == {x \in live : x.owner = owner}

\* C15: every sandbox container and temp directory created during runScan,
\* generateFixes or runFixWorker is torn down on success and on every failure
\* path, also when the container fails while it is started: once the function
\* has returned, nothing it made is left.
C15_AllTornDown ==
  /\ scanPc = "done" => LiveOf(ScanOwner) = {}
  /\ \A r \in RunIds :
       /\ gen[r].pc = "done" => LiveOf(RunOwner(r)) = {}
       /\ \A w \in WorkerIds :
            (w \notin DOMAIN wk[r] \/ wk[r][w].pc = "done") => LiveOf(WorkerOwner(r, w)) = {}

\* runScan leaves its try block on a failed clone in this step
CloneFails == scanPc = "clone" /\ scanPc' = "done"

\* C16: when the clone fails during runScan, the Scan ends failed with an
\* errorMessage that identifies a clone failure, no sandbox is created and no
\* Violation row is written.
C16_CloneFailure ==
  /\ [][CloneFails
         => /\ scan'.status = "failed"
            /\ scan'.errorMessage.kind = "error"
            /\ scan'.errorMessage.cause \in CloneErrors]_vars
  /\ [](scanPc \in {"idle", "start", "clone"}
         => /\ ScanViolations(ScanId) = {}
            /\ \A x \in LiveOf(ScanOwner) : x.kind # "box")
  /\ [][scanPc = "done" => UNCHANGED <<scanPc, violations, LiveOf(ScanOwner)>>]_vars

\* runScan has ended on a failed clone
C16_Witness ==
  /\ scanPc = "done"
  /\ scan.status = "failed"
  /\ scan.errorMessage.kind = "error"
  /\ scan.errorMessage.cause \in CloneErrors
  /\ ScanViolations(ScanId) = {}
  /\ LiveOf(ScanOwner) = {}

\* C17: the access token never reaches persistent state: no errorMessage
\* written by runScan or generateFixes contains it, also when git clone fails
\* and its output echoes the authenticated URL.
C17_TokenNotStored == ~TokenIn(scan.errorMessage)

\* how many violations of the list have the impact
CountOf(list, impact) == Cardinality({i \in 1 .. Len(list) : list[i] = impact})

\* the sum of the weights as the claim gives them: 10, 7, 4, 1, and 1 for
\* any other impact
ClaimedWeight(list) ==
  10 * CountOf(list, "critical") + 7 * CountOf(list, "serious")
    + 4 * CountOf(list, "moderate")
    + (Len(list) - CountOf(list, "critical") - CountOf(list, "serious")
         - CountOf(list, "moderate"))

\* s is max(0, round(100 - (weight / (count * 10)) * 100)), the round taken
\* to the nearest integer with halves going up
IsClaimedScore(s, weight, count) ==
  LET twice == 2 * (100 * count - 10 * weight) + count
  IN IF twice < 0 THEN s = 0
     ELSE 2 * count * s <= twice /\ twice < 2 * count * (s + 1)

\* C18: calculateAccessibilityScore returns
\* max(0, round(100 - (sum of weights / (count * 10)) * 100)) with the weights
\* critical 10, serious 7, moderate 4, minor 1, other 1, and 100 for an empty
\* list; the result is an integer in [0, 100]; a list of critical violations
\* scores lower than a list of as many minor ones.
C18_ScoreFormula ==
  calc.pc = "returned"
    => LET list == calc.violations
           count == Len(list)
       IN /\ calc.score \in 0 .. 100
          /\ count = 0 => calc.score = 100
          /\ count > 0 => IsClaimedScore(calc.score, ClaimedWeight(list), count)
          /\ (count > 0 /\ CountOf(list, "critical") = count)
               => calc.score < calculateAccessibilityScore([i \in 1 .. count |-> "minor"])

\* one critical and three minor violations: 67.5 rounds to 68
C18_Witness ==
  /\ calc.pc = "returned"
  /\ calc.violations = <<"critical", "minor", "minor", "minor">>
  /\ calc.score = 68

\* C19: calculateAccessibilityScore does not depend on the order of the
\* violations: every permutation of a list has the list's score.
C19_OrderIndependent ==
  calc.pc = "returned"
    => \A perm \in Permutations(1 .. Len(calc.violations)) :
         calculateAccessibilityScore(
           [i \in 1 .. Len(calc.violations) |-> calc.violations[perm[i]]]) = calc.score

\* a list of three different impacts, not in the order of their weights
C19_Witness ==
  /\ calc.pc = "returned"
  /\ calc.violations = <<"minor", "critical", "serious">>
  /\ calc.score = 40

\* the post-fix re-scan of run r has failed in this step: its exec threw, or
\* it returned ok: false
RescanFails(r) ==
  /\ FixReturns(r)
  /\ gen[r].pc = "tail"
  /\ DOMAIN gen[r].L.fixes # {}
  /\ \/ scan'.errorMessage = [kind |-> "error", cause |-> "rescan"]
     \/ /\ scan'.errorMessage.kind = "warnings"
        /\ \E k \in 1 .. Len(scan'.errorMessage.parts) :
             scan'.errorMessage.parts[k] = "inferred"

\* the Scan's violations that have no Fix row
Unfixed == {v \in ScanViolations(ScanId) : ~\E f \in fixes : f.violationId = v.id}

\* C20: when at least one fix was produced and the post-fix re-scan fails,
\* the Scan still ends complete (not failed), with scoreAfter computed from
\* the Scan's violations that have no Fix row and an errorMessage that says
\* the score is inferred.
C20_RescanFailureTolerated ==
  [][\A r \in RunIds :
       RescanFails(r)
         => /\ scan'.status = "complete"
            /\ scan'.errorMessage.kind = "warnings"
            /\ scan'.scoreAfter = calculateAccessibilityScore(ImpactsOf(Unfixed))]_vars

\* the conditions of a refund, on a Scan row at an instant
Refundable(row, nowMs) ==
  /\ row.status = "failed"
  /\ row.escrowOwner # "null"
  /\ row.escrowOfferSequence # -1
  /\ row.escrowRefundedAt = -1
  /\ nowMs >= row.escrowCancelAfter

\* the refund route reads the Scan in this step
RefundReads == refund.pc = "idle" /\ refund'.requests = refund.requests + 1

\* the refund route returns in this step without a refund
RefundFails == refund'.pc = "idle" /\ refund' # refund /\ refund'.response # "success"

\* C21: the refund route goes on to the escrow cancel exactly when the Scan
\* it reads is failed, has escrow owner and sequence, is not refunded and
\* its escrowCancelAfter has passed; an EscrowCancel is submitted and
\* escrowRefundedAt is written only by a request that found all of this; a
\* request that ends otherwise answers with an error and leaves the Scan and
\* the escrow as they were.
C21_RefundGuard ==
  /\ [][RefundReads => (refund'.pc = "cancel" <=> Refundable(scan, NowMs))]_vars
  /\ [][(ledger'.cancels # ledger.cancels \/ scan'.escrowRefundedAt # scan.escrowRefundedAt)
         => /\ refund.pc = "cancel"
            /\ Refundable(refund.read[1], refund.readAt)]_vars
  /\ [][RefundFails
         => /\ refund'.response \in {"not-failed", "no-escrow", "already", "early", "502"}
            /\ scan' = scan
            /\ ledger'.escrow = ledger.escrow]_vars

\* a refund has gone through, and a later request was told so
C21_Witness ==
  /\ scan.escrowRefundedAt # -1
  /\ ledger.escrow = "cancelled"
  /\ refund.response = "already"

\* C28: once runScan has completed a Scan whose escrow is locked, the escrow
\* is eventually finished on the ledger (released to the payee).
C28_EscrowReleased ==
  (scanPc = "done" /\ scan.status = "complete" /\ ledger.escrow = "locked")
    ~> (ledger.escrow = "finished")

\* C22: the timeout computed for a batch is at most the configured per-batch
\* timeout and at most the budget that is left when the batch starts.
C22_TimeoutCapped ==
  (call.fn = "batchTimeoutSeconds" /\ call.pc = "returned")
    => call.result[1] <= Min(call.args[1], call.args[2])

\* the worker (from 1) whose group holds batch b in groups G
HoldersOf(G, b) == {k \in 1 .. Len(G) : \E j \in 1 .. Len(G[k]) : G[k][j] = b}

\* C23: partitionBatches puts the batch at position i (from 0) in the group
\* of worker i mod k and nowhere else, where k is the lesser of the clamped
\* worker count and the number of batches; a group keeps the order of the
\* batches, no group is empty and two groups differ in size by at most one.
C23_RoundRobin ==
  (call.fn = "partitionBatches" /\ call.pc = "returned")
    => LET batches == call.args[1]
           G == call.result[1]
           k == Min(Max(1, Min(6, call.args[2])), Len(batches))
       IN /\ Len(G) = k
          /\ \A i \in 1 .. Len(batches) : HoldersOf(G, batches[i]) = {((i - 1) % k) + 1}
          /\ \A w \in 1 .. k :
               /\ Len(G[w]) > 0
               /\ \A j \in 1 .. Len(G[w]) : G[w][j] = batches[w + (j - 1) * k]
          /\ \A v \in 1 .. k : \A w \in 1 .. k : Len(G[v]) - Len(G[w]) <= 1

\* four batches under OPENCODE_WORKERS=2: two and two
C23_Witness ==
  /\ call.fn = "partitionBatches"
  /\ call.pc = "returned"
  /\ call.args = <<<< <<1>>, <<2>>, <<3>>, <<4>> >>, 2>>
  /\ call.result[1] = << << <<1>>, <<3>> >>, << <<2>>, <<4>> >> >>

\* the Violation row of the plan's snapshot with this id
PlanRow(id) == CHOOSE v \in call.args[1] : v.id = id

\* worker w invoked a batch holding row a before a batch holding row b
InvokedBefore(a, b) ==
  \E w \in WorkerIds :
    LET mine == InvokedBy(w)
    IN \E i \in 1 .. Len(mine) : \E j \in 1 .. Len(mine) :
         /\ i < j
         /\ \E x \in 1 .. Len(mine[i][2]) : mine[i][2][x] = a.id
         /\ \E y \in 1 .. Len(mine[j][2]) : mine[j][2][y] = b.id

PlanRows == IF call.fn = "plan" THEN call.args[1] ELSE {}

\* C24 as stated: within a worker no non-contrast batch is invoked before a
\* contrast batch, and no batch holding a lower-impact violation is invoked
\* before a batch holding a higher-impact one.
C24_PriorityOrder ==
  \A a \in PlanRows : \A b \in PlanRows :
    InvokedBefore(a, b)
      => /\ isContrastRule(a.ruleId) \/ ~isContrastRule(b.ruleId)
         /\ impactPriority(a.impact) >= impactPriority(b.impact)

\* C24 amended: within a worker no non-contrast batch is invoked before a
\* contrast batch, no batch of another rule before a color-contrast batch,
\* and among violations of equal rule priority no batch holding a
\* lower-impact violation is invoked before one holding a higher-impact one.
C24_PriorityOrderByClass ==
  \A a \in PlanRows : \A b \in PlanRows :
    InvokedBefore(a, b)
      => /\ isContrastRule(a.ruleId) \/ ~isContrastRule(b.ruleId)
         /\ a.ruleId = "color-contrast" \/ b.ruleId # "color-contrast"
         /\ (isContrastRule(a.ruleId) = isContrastRule(b.ruleId)
              /\ (a.ruleId = "color-contrast") = (b.ruleId = "color-contrast"))
            => impactPriority(a.impact) >= impactPriority(b.impact)

\* one worker has invoked a minor color-contrast batch, then a critical
\* image-alt batch and then a minor image-alt batch
C24_Witness ==
  /\ call.fn = "plan"
  /\ Len(call.log) = 3
  /\ \A e \in 1 .. 3 : call.log[e][1] = 1
  /\ PlanRow(call.log[1][2][1]).ruleId = "color-contrast"
  /\ PlanRow(call.log[1][2][1]).impact = "minor"
  /\ PlanRow(call.log[2][2][1]).ruleId = "image-alt"
  /\ PlanRow(call.log[2][2][1]).impact = "critical"
  /\ PlanRow(call.log[3][2][1]).ruleId = "image-alt"
  /\ PlanRow(call.log[3][2][1]).impact = "minor"

\* runScan writes complete in this step
ScanSucceeds == scanPc = "persist" /\ scanPc' = "done" /\ scan'.status = "complete"

\* the rule metadata of a Violation row
RuleData(v) == <<v.ruleId, v.impact, v.description, v.helpUrl, v.wcagCriteria, v.score>>

\* C25: when runScan completes, the Scan has as many Violation rows as the
\* reported rule violations have nodes in total, as many per rule as that
\* rule has nodes, and the rows of one rule agree in ruleId, impact,
\* description, helpUrl, criteria and weight, which are the rule's.
C25_RowPerNode ==
  [][ScanSucceeds
      => LET rows == {v \in violations' : v.scanId = ScanId}
         IN /\ Cardinality(rows)
                 = SumSeq([i \in 1 .. Len(scanResults) |-> scanResults[i].nodes])
            /\ \A i \in 1 .. Len(scanResults) :
                 LET mine == {v \in rows : v.ruleId = scanResults[i].id}
                 IN /\ Cardinality(mine) = scanResults[i].nodes
                    /\ \A v \in mine : \A u \in mine : RuleData(v) = RuleData(u)
                    /\ \A v \in mine :
                         /\ v.impact = scanResults[i].impact
                         /\ v.description = scanResults[i].description
                         /\ v.helpUrl = scanResults[i].helpUrl
                         /\ v.score = ClaimedWeight(<<v.impact>>)]_vars

\* a scan of two rules with two nodes each has completed with four rows
C25_Witness ==
  /\ scanPc = "done"
  /\ scan.status = "complete"
  /\ Len(scanResults) = 2
  /\ \A i \in 1 .. 2 : scanResults[i].nodes = 2
  /\ Cardinality(ScanViolations(ScanId)) = 4

\* the rows the batch stored hold the fix with this code for this violation
StoredFor(vid, code) ==
  \E j \in 1 .. Len(call.log) : call.log[j] = <<vid, code>>

\* the batch's fixes are the ones read from the agent's output: it left a
\* fix list and no changed file
FixesFromOutput ==
  /\ call.fn = "runOpencodeFixBatch"
  /\ call.pc = "stored"
  /\ call.args[1].json # <<>>
  /\ call.args[1].dirty = 0

\* C26: a fix read from the agent's output whose originalCode matches nothing
\* in its file is still stored as a Fix row for the violation it names.
C26_UnmatchedStored ==
  FixesFromOutput =>
    \A k \in 1 .. Len(call.args[1].json) :
      LET fix == call.args[1].json[k]
      IN (~fix.patchable /\ fix.violationId # <<>>) =>
           StoredFor(fix.violationId[1], fix.code)

\* C27: a fix read from the agent's output without a violationId is stored
\* under an id of its batch: the only id of a one-violation batch, the i-th id
\* of a larger batch for the fix at position i.
C27_FallbackIdStored ==
  FixesFromOutput =>
    \A k \in 1 .. Min(Len(call.args[1].json), Len(call.args[2])) :
      LET fix == call.args[1].json[k]
          batchIds == call.args[2]
      IN (fix.patchable /\ fix.violationId = <<>>) =>
           StoredFor(IF Len(batchIds) = 1 THEN batchIds[1] ELSE batchIds[k],
                     fix.code)

\* every fix this loop has captured from its finished batches is a Fix row
CapturedAreRows(L) ==
  \A vid \in DOMAIN L.fixes :
    \E f \in fixes : f.scanId = ScanId /\ f.violationId = vid /\ f.code = L.fixes[vid]

C30_ServersKilled ==
  (call.fn = "scanScript" /\ call.pc = "exited") => call.procs = {}

\* the repository offers no app: no directory's server answers, no port
\* answers unaided, no index.html candidate renders
NoAppInRepo(repo) ==
  /\ \A k \in 1 .. Len(repo.dev) : repo.dev[k] # "serves"
  /\ ~repo.listening
  /\ \A k \in 1 .. Len(repo.static) : repo.static[k] # "renders"

\* C31: for a repository that offers no app, once runScan has handled the
\* script's outcome (its exec call did not throw) the Scan is failed, its
\* errorMessage is the script's "no running dev server ... no index.html"
\* text, and no Violation row was written.
C31_NoAppReported ==
  (/\ call.fn = "scanScript"
   /\ call.exec \in {"returned", "timeout"}
   /\ call.status # "scanning"
   /\ NoAppInRepo(call.args[1]))
    => (call.status = "failed" /\ call.errorMessage = "noapp" /\ call.rows = 0)

\* generateFixes run r has been started and has not returned
RunActive(r) == gen[r].pc \notin {"idle", "done"}

\* C32: no two generateFixes runs of the Scan are active at the same time.
C32_OneActiveRun ==
  \A r1, r2 \in RunIds : (RunActive(r1) /\ RunActive(r2)) => r1 = r2

\* worker w holds a directory / a sandbox
HoldsDirs(w) == call.wr[w].dirs # 0
HoldsSandbox(w) == call.wr[w].container # 0

\* C33: in a multi-worker run no two workers hold the same directory or the
\* same container, no worker's directory or container is the orchestrator's,
\* and a worker's sandbox has the worker's own directory as its working tree.
C33_WorkersApart ==
  call.fn = "workers" =>
    /\ \A w1, w2 \in DOMAIN call.wr :
         w1 # w2 =>
           /\ (HoldsDirs(w1) /\ HoldsDirs(w2)) => call.wr[w1].dirs # call.wr[w2].dirs
           /\ (HoldsSandbox(w1) /\ HoldsSandbox(w2)) =>
                /\ call.wr[w1].container # call.wr[w2].container
                /\ call.wr[w1].workspace # call.wr[w2].workspace
    /\ \A w \in DOMAIN call.wr :
         /\ HoldsDirs(w) => call.wr[w].dirs # call.base
         /\ HoldsSandbox(w) =>
              /\ call.wr[w].container # call.baseContainer
              /\ call.wr[w].workspace = call.wr[w].dirs
              /\ call.wr[w].workspace # call.base

\* two workers are in their sandboxes at the same time
C33_Witness ==
  /\ call.fn = "workers"
  /\ \E w1, w2 \in DOMAIN call.wr :
       /\ w1 # w2
       /\ call.wr[w1].pc = "batches" /\ call.wr[w2].pc = "batches"

\* the violation ids for which some worker of run r returned a fix
ReturnedIds(r) == UNION {DOMAIN wk[r][w].L.fixes : w \in DOMAIN wk[r]}

\* the worker with the largest workerId among those that returned a fix for vid
LastReturning(r, vid) ==
  CHOOSE w \in DOMAIN wk[r] :
    /\ vid \in DOMAIN wk[r][w].L.fixes
    /\ \A x \in DOMAIN wk[r] : vid \in DOMAIN wk[r][x].L.fixes => x <= w

\* C34: when a multi-worker run merges, the Fix rows are fixed by what the
\* workers returned, whatever the order they finished in: each returned
\* violation id has one row, with the fix of the worker of the largest
\* workerId that returned one for it, and the other rows are left as they were.
C34_MergeByKey ==
  [][\A r \in RunIds :
       Merges(r) =>
         /\ \A vid \in ReturnedIds(r) :
              \E f \in fixes' :
                /\ f.violationId = vid
                /\ f.code = wk[r][LastReturning(r, vid)].L.fixes[vid]
                /\ \A g \in fixes' : g.violationId = vid => g = f
         /\ \A f \in fixes' : f.violationId \notin ReturnedIds(r) => f \in fixes
         /\ \A f \in fixes : f.violationId \notin ReturnedIds(r) => f \in fixes']_vars

\* a run is about to merge two workers that returned different fixes for the
\* same violation id
C34_Witness ==
  \E r \in RunIds :
    /\ gen[r].pc = "workers"
    /\ \A w \in DOMAIN wk[r] : wk[r][w].pc = "done"
    /\ \E w1, w2 \in DOMAIN wk[r] :
         \E vid \in DOMAIN wk[r][w1].L.fixes \cap DOMAIN wk[r][w2].L.fixes :
           w1 # w2 /\ wk[r][w1].L.fixes[vid] # wk[r][w2].L.fixes[vid]

\* run r's transaction commits in this step
Begins(r) == gen[r].pc = "begin" /\ gen'[r].pc = "clone"

\* C35: scoreAfter is null as long as the Scan has not been set to fixing; the
\* step in which a run starts fixing leaves it null; and a step that writes a
\* score to it is the final write of a generateFixes run, which sets complete.
C35_ScoreAfterOnlyByFixing ==
  /\ [](scan.status \in {"none", "pending", "cloning", "scanning"}
          => scan.scoreAfter = -1)
  /\ [][/\ \A r \in RunIds : Begins(r) => scan'.scoreAfter = -1
        /\ (scan'.scoreAfter # scan.scoreAfter /\ scan'.scoreAfter # -1)
             => /\ scan'.status = "complete"
                /\ \E r \in RunIds : gen[r].pc = "tail" /\ gen'[r].pc = "done"]_vars

\* a run is about to start fixing a Scan whose scoreAfter an earlier run wrote
C35_Witness ==
  scan.scoreAfter # -1 /\ \E r \in RunIds : gen[r].pc = "begin"

\* C36: of the Payments of one user, scan and payment type at most one is
\* escrowed or confirmed.
C36_OneLivePayment ==
  call.fn = "payment" =>
    \A j, k \in 1 .. Len(call.rows) :
      (/\ call.rows[j].status \in {"escrowed", "confirmed"}
       /\ call.rows[k].status \in {"escrowed", "confirmed"}) => j = k

\* C37: for one result of the rule engine, the score runScan stores and the
\* scoreAfter generateFixes computes from a successful re-scan are the same.
C37_SameCounting ==
  (call.fn = "rescore" /\ call.pc = "returned") => call.score = call.scoreAfter

\* the filePath of the call names a place outside the repository: it is
\* absolute, a file:// URL, or has a ".." segment
OutwardPath(filePath) ==
  \/ Len(filePath) > 1 /\ filePath[1] = ""
  \/ filePath[1] = "file:"
  \/ \E k \in 1 .. Len(filePath) : filePath[k] = ".."

C39_OwnScanOnly ==
  call.fn = "fixroute" =>
    \A k \in 1 .. Len(call.log) :
      call.log[k].user = call.scans[call.log[k].scanId].userId

====
